---- MODULE Spec2Model ----
(***************************************************************************)
(* A model of the jvim modal JSON editor (src/src/jvim): the line buffer,  *)
(* the cursor, the modal key dispatcher, the fold table, undo/redo and the *)
(* substitute engine.  Text is modelled at character level: a line is a    *)
(* sequence of one-character strings, row and column indices are 0-based   *)
(* as in the Python source.                                                *)
(*                                                                         *)
(* A method is one operator named after it.  Where a method computes a     *)
(* local and then uses it several times, the rest of the method is the     *)
(* operator Method_local, which takes that local as a parameter, so that   *)
(* the local is evaluated once, as in the source.                          *)
(***************************************************************************)
EXTENDS Integers, Sequences, FiniteSets, TLC

VARIABLES
    lines,              \* self.lines: the line array
    cursor_row,         \* self.cursor_row
    cursor_col,         \* self.cursor_col
    mode,               \* self._mode: "NORMAL" | "INSERT" | "COMMAND" | "SEARCH"
    pending,            \* self.pending: "" or the first key of a two-key combo
    status_msg,         \* self.status_msg: [msg, n]
    undo_stack,         \* self.undo_stack: sequence of [lines, row, col]
    redo_stack,         \* self.redo_stack
    yank_buffer,        \* self.yank_buffer: sequence of texts
    yank_type,          \* self._yank_type: "line" | "char"
    folds,              \* self._folds: dict header -> end, as <<s, e>> pairs in insertion order
    collapsed_strings,  \* self._collapsed_strings: the set of lines whose long string is collapsed
    visual_mode,        \* self._visual_mode: "" | "v" | "V"
    visual_anchor_row,  \* self._visual_anchor_row
    visual_anchor_col,  \* self._visual_anchor_col
    command_buffer,     \* self.command_buffer
    search_buffer,      \* self._search_buffer
    search_pattern,     \* self._search_pattern
    search_forward,     \* self._search_forward
    search_matches,     \* self._search_matches: sequence of <<row, col_start, col_end>>
    current_match,      \* self._current_match
    scroll_top,         \* self._scroll_top
    read_only,          \* self.read_only
    dot_buffer,         \* self._dot_buffer: the recorded key events [key, char]
    dot_recording,      \* self._dot_recording
    dot_replaying,      \* self._dot_replaying
    crashed,            \* an exception escaped on_key (the handler was cut short)
    diff_result,        \* the DiffResult of the last compute_json_diff call
    hist                \* history variable of the undo/redo round trip (not program state)

vars == <<lines, cursor_row, cursor_col, mode, pending, status_msg, undo_stack,
          redo_stack, yank_buffer, yank_type, folds, collapsed_strings, visual_mode,
          visual_anchor_row, visual_anchor_col, command_buffer, search_buffer,
          search_pattern, search_forward, search_matches, current_match, scroll_top, read_only,
          dot_buffer, dot_recording, dot_replaying, crashed, diff_result, hist>>

----------------------------------------------------------------------------
(* Bounds of the model. *)

\* content_region.height - 2 of the widget the editor runs in
VisibleHeight == 2

----------------------------------------------------------------------------
(* Python built-ins on integers and strings. *)

Max(a, b) == IF a >= b THEN a ELSE b

Min(a, b) == IF a <= b THEN a ELSE b

\* s[:n] for n >= 0
Take(s, n) == SubSeq(s, 1, Min(n, Len(s)))

\* s[n:] for n >= 0
Drop(s, n) == SubSeq(s, Min(n, Len(s)) + 1, Len(s))

\* s[a:b] for a, b >= 0
Slice(s, a, b) == SubSeq(s, Min(a, Len(s)) + 1, Min(b, Len(s)))

\* s[i] for 0 <= i < len(s)
At(s, i) == s[i + 1]

IsSpace(c) == c \in {" ", "\t", "\n"}

\* str.isalnum() or "_" on the model's alphabet
IsWordChar(c) ==
    c \in {"a", "b", "c", "d", "e", "f", "g", "h", "i", "j", "k", "l", "m", "n", "o", "p",
           "q", "r", "s", "t", "u", "v", "w", "x", "y", "z", "A", "G", "I", "J", "M", "N",
           "O", "P", "R", "V", "0", "1", "2", "3", "4", "5", "6", "7", "8", "9", "_"}

\* number of leading whitespace characters: len(s) - len(s.lstrip())
RECURSIVE LeadingSpaces(_)
LeadingSpaces(s) ==
    IF s = <<>> \/ ~IsSpace(Head(s)) THEN 0 ELSE 1 + LeadingSpaces(Tail(s))

RECURSIVE TrailingSpaces(_)
TrailingSpaces(s) ==
    IF s = <<>> \/ ~IsSpace(s[Len(s)]) THEN 0
    ELSE 1 + TrailingSpaces(SubSeq(s, 1, Len(s) - 1))

Lstrip(s) == Drop(s, LeadingSpaces(s))

Rstrip(s) == Take(s, Len(s) - TrailingSpaces(s))

Strip(s) == Lstrip(Rstrip(s))

\* " " * n
RECURSIVE Spaces(_)
Spaces(n) == IF n <= 0 THEN <<>> ELSE <<" ">> \o Spaces(n - 1)

\* s.startswith(p)
StartsWith(s, p) == Len(s) >= Len(p) /\ SubSeq(s, 1, Len(p)) = p

\* s.endswith("{") or s.endswith("[")
EndsWithOpen(s) == s # <<>> /\ s[Len(s)] \in {"{", "["}

\* list.insert(i, x) for 0 <= i
InsertAt(s, i, x) == Take(s, i) \o <<x>> \o Drop(s, i)

\* list.pop(i) for 0 <= i < len(s)
RemoveAt(s, i) == Take(s, i) \o Drop(s, i + 1)

\* s[i] = x
SetAt(s, i, x) == [s EXCEPT ![i + 1] = x]

\* the index of the first "\n" in s at or after i, or len(s)
RECURSIVE NextNewline(_, _)
NextNewline(s, i) ==
    IF i >= Len(s) \/ At(s, i) = "\n" THEN i ELSE NextNewline(s, i + 1)

\* text.split("\n")
RECURSIVE SplitLines(_)
SplitLines(s) ==
    LET n == NextNewline(s, 0)
    IN  IF n >= Len(s) THEN <<s>>
        ELSE <<Take(s, n)>> \o SplitLines(Drop(s, n + 1))

\* "\n".join(parts)
RECURSIVE StrJoin(_)
StrJoin(parts) ==
    IF parts = <<>> THEN <<>>
    ELSE IF Len(parts) = 1 THEN parts[1]
    ELSE parts[1] \o <<"\n">> \o StrJoin(Tail(parts))

\* the status message with its count (0 when the text has none)
Msg(m) == [msg |-> m, n |-> 0]

MsgN(m, k) == [msg |-> m, n |-> k]

----------------------------------------------------------------------------
(* Long string values (_fold.py). *)

\* self._string_collapse_threshold
string_collapse_threshold == 60

None3 == <<-1, -1, -1>>

\* the inner loop of _find_long_string_at: the index of the quote that closes the
\* string, or len(line)
LongStringQuote(line, i) ==
    LET stops == {j \in i..(Len(line) - 1) : At(line, j) = "\"" /\ At(line, j - 1) # "\\"}
    IN  IF stops = {} THEN Max(i, Len(line)) ELSE CHOOSE j \in stops : \A k \in stops : j <= k

RECURSIVE LongStringFrom(_, _)

\* LongStringFrom, once start, end are known
LongStringFrom_end(line, start, end) ==
    LET before == Rstrip(Take(line, start))
    IN  IF /\ before # <<>>
           /\ before[Len(before)] = ":"
           /\ end - start - 2 >= string_collapse_threshold
        THEN <<start, end, end - start - 2>>
        ELSE LongStringFrom(line, end)

\* the outer loop of _find_long_string_at, from index i: on to the next quote
LongStringFrom(line, i) ==
    LET quotes == {j \in i..(Len(line) - 1) : At(line, j) = "\""}
        start == CHOOSE j \in quotes : \A k \in quotes : j <= k
    IN  IF quotes = {} THEN None3
        ELSE LongStringFrom_end(line, start, LongStringQuote(line, start + 1) + 1)

\* _find_long_string_at: <<quote_start, quote_end, str_len>> or None3
FindLongStringAt(ls, line_idx) == LongStringFrom(At(ls, line_idx), 0)

\* the lines JsonEditor.__init__ collapses on load
LongStringLines(ls) == {i \in 0..(Len(ls) - 1) : FindLongStringAt(ls, i) # None3}

----------------------------------------------------------------------------
(* The editor object as a record, so that one handler can call another. *)

St == [lines |-> lines, cursor_row |-> cursor_row, cursor_col |-> cursor_col,
       mode |-> mode, pending |-> pending, status_msg |-> status_msg,
       undo_stack |-> undo_stack, redo_stack |-> redo_stack,
       yank_buffer |-> yank_buffer, yank_type |-> yank_type, folds |-> folds,
       collapsed_strings |-> collapsed_strings,
       visual_mode |-> visual_mode, visual_anchor_row |-> visual_anchor_row,
       visual_anchor_col |-> visual_anchor_col,
       command_buffer |-> command_buffer, search_buffer |-> search_buffer,
       search_pattern |-> search_pattern,
       search_forward |-> search_forward, search_matches |-> search_matches,
       current_match |-> current_match, scroll_top |-> scroll_top,
       read_only |-> read_only, dot_buffer |-> dot_buffer,
       dot_recording |-> dot_recording, dot_replaying |-> dot_replaying,
       crashed |-> crashed]

\* the editor after JsonEditor(initial_content, read_only=ro)
NewEditor(content, ro) ==
    [lines |-> content, cursor_row |-> 0, cursor_col |-> 0, mode |-> "NORMAL",
     pending |-> "", status_msg |-> Msg(""), undo_stack |-> <<>>,
     redo_stack |-> <<>>, yank_buffer |-> <<>>, yank_type |-> "line",
     folds |-> <<>>, collapsed_strings |-> LongStringLines(content),
     visual_mode |-> "", visual_anchor_row |-> 0,
     visual_anchor_col |-> 0, command_buffer |-> <<>>, search_buffer |-> <<>>,
     search_pattern |-> <<>>,
     search_forward |-> TRUE, search_matches |-> <<>>, current_match |-> -1,
     scroll_top |-> 0, read_only |-> ro, dot_buffer |-> <<>>,
     dot_recording |-> FALSE, dot_replaying |-> FALSE, crashed |-> FALSE]

\* self.lines[self.cursor_row]
CurLine(e) == At(e.lines, e.cursor_row)

\* an exception leaves the handler: nothing after the raise runs
Raise(e) == [e EXCEPT !.crashed = TRUE]

----------------------------------------------------------------------------
(* The fold table: a dict {header: end}, kept in insertion order. *)

FoldHas(f, k) == \E i \in 1..Len(f) : f[i][1] = k

\* f[k] = v
FoldSet(f, k, v) ==
    IF FoldHas(f, k)
    THEN [i \in 1..Len(f) |-> IF f[i][1] = k THEN <<k, v>> ELSE f[i]]
    ELSE Append(f, <<k, v>>)

\* del f[k]
FoldDel(f, k) == SelectSeq(f, LAMBDA p : p[1] # k)

RECURSIVE AdjustInsert(_, _, _, _)
AdjustInsert(f, acc, from_line, delta) ==
    IF f = <<>> THEN acc
    ELSE LET s == Head(f)[1]
             e == Head(f)[2]
             ns == IF s >= from_line THEN s + delta ELSE s
             ne == IF e >= from_line THEN e + delta ELSE e
         IN  AdjustInsert(Tail(f), FoldSet(acc, ns, ne), from_line, delta)

\* the deletion branch of _adjust_line_indices that leaves the end of a fold
\* around the deleted rows where it was
RECURSIVE AdjustDeleteKeepEnd(_, _, _, _)
AdjustDeleteKeepEnd(f, acc, from_line, abs_d) ==
    IF f = <<>> THEN acc
    ELSE LET s == Head(f)[1]
             e == Head(f)[2]
             del_end == from_line + abs_d
             acc2 == IF e < from_line THEN FoldSet(acc, s, e)
                     ELSE IF s >= del_end THEN FoldSet(acc, s - abs_d, e - abs_d)
                     ELSE IF s >= from_line THEN acc
                     ELSE FoldSet(acc, s, e)
         IN  AdjustDeleteKeepEnd(Tail(f), acc2, from_line, abs_d)

RECURSIVE AdjustDelete(_, _, _, _)
AdjustDelete(f, acc, from_line, abs_d) ==
    IF f = <<>> THEN acc
    ELSE LET s == Head(f)[1]
             e == Head(f)[2]
             del_end == from_line + abs_d
             acc2 == IF e < from_line THEN FoldSet(acc, s, e)
                     ELSE IF s >= del_end THEN FoldSet(acc, s - abs_d, e - abs_d)
                     ELSE IF s >= from_line THEN acc
                     ELSE IF e < del_end
                          THEN IF from_line - 1 > s
                               THEN FoldSet(acc, s, from_line - 1)
                               ELSE acc
                     ELSE FoldSet(acc, s, e - abs_d)
         IN  AdjustDelete(Tail(f), acc2, from_line, abs_d)

\* _adjust_line_indices that shifts folds on insertion but leaves them where
\* they were on deletion
AdjustFoldsInsertOnly(f, from_line, delta) ==
    IF delta > 0 THEN AdjustInsert(f, <<>>, from_line, delta) ELSE f

\* _adjust_line_indices on the fold table
AdjustFolds(f, from_line, delta) ==
    IF delta = 0 THEN f
    ELSE IF delta > 0 THEN AdjustInsert(f, <<>>, from_line, delta)
    ELSE AdjustDelete(f, <<>>, from_line, -delta)

\* _adjust_line_indices that shifts the collapsed strings on insertion only
AdjustStringsInsertOnly(cs, from_line, delta) ==
    IF delta > 0 THEN {IF i >= from_line THEN i + delta ELSE i : i \in cs} ELSE cs

\* _adjust_line_indices on the collapsed-string set
AdjustStrings(cs, from_line, delta) ==
    IF delta = 0 THEN cs
    ELSE IF delta > 0 THEN {IF i >= from_line THEN i + delta ELSE i : i \in cs}
    ELSE {IF i >= from_line - delta THEN i + delta ELSE i :
              i \in {j \in cs : ~(from_line <= j /\ j < from_line - delta)}}

AdjustLineIndices(e, from_line, delta) ==
    [e EXCEPT !.folds = AdjustFolds(e.folds, from_line, delta),
              !.collapsed_strings = AdjustStrings(e.collapsed_strings, from_line, delta)]

None2 == <<-1, -1>>

ClosingOf(ch) == IF ch = "{" THEN "}" ELSE IF ch = "[" THEN "]" ELSE ")"

OpeningOf(ch) == IF ch = "}" THEN "{" ELSE IF ch = "]" THEN "[" ELSE "("

\* the first index from c on where line holds one of the two brackets, or
\* len(line): the scan loops pass over every other character unchanged
NextBracket(line, c, open_ch, close_ch) ==
    LET at == {j \in c..(Len(line) - 1) : At(line, j) \in {open_ch, close_ch}}
    IN  IF at = {} THEN Max(c, Len(line)) ELSE CHOOSE j \in at : \A k \in at : j <= k

\* the last index up to c where line holds one of the two brackets, or -1
PrevBracket(line, c, open_ch, close_ch) ==
    LET at == {j \in 0..c : At(line, j) \in {open_ch, close_ch}}
    IN  IF at = {} THEN -1 ELSE CHOOSE j \in at : \A k \in at : j >= k

RECURSIVE ScanForward(_, _, _, _, _, _)

\* ScanForward, once the scan stands on a bracket or past the end of the line
ScanForward_c(ls, r, c, open_ch, close_ch, depth) ==
    IF c >= Len(At(ls, r)) THEN ScanForward(ls, r + 1, 0, open_ch, close_ch, depth)
    ELSE IF At(At(ls, r), c) = open_ch
    THEN ScanForward(ls, r, c + 1, open_ch, close_ch, depth + 1)
    ELSE IF depth = 1 THEN <<r, c>>
    ELSE ScanForward(ls, r, c + 1, open_ch, close_ch, depth - 1)

\* the scan loop of _find_matching_bracket_forward / _search_bracket_forward
ScanForward(ls, r, c, open_ch, close_ch, depth) ==
    IF r >= Len(ls) THEN None2
    ELSE ScanForward_c(ls, r, NextBracket(At(ls, r), c, open_ch, close_ch),
                       open_ch, close_ch, depth)

RECURSIVE ScanBackward(_, _, _, _, _, _)

\* ScanBackward, once the scan stands on a bracket or before the line
ScanBackward_c(ls, r, c, close_ch, open_ch, depth) ==
    IF c < 0
    THEN IF r - 1 >= 0
         THEN ScanBackward(ls, r - 1, Len(At(ls, r - 1)) - 1, close_ch, open_ch, depth)
         ELSE None2
    ELSE IF At(At(ls, r), c) = close_ch
    THEN ScanBackward(ls, r, c - 1, close_ch, open_ch, depth + 1)
    ELSE IF depth = 1 THEN <<r, c>>
    ELSE ScanBackward(ls, r, c - 1, close_ch, open_ch, depth - 1)

\* the scan loop of _search_bracket_backward
ScanBackward(ls, r, c, close_ch, open_ch, depth) ==
    IF r < 0 THEN None2
    ELSE ScanBackward_c(ls, r, PrevBracket(At(ls, r), c, open_ch, close_ch),
                        close_ch, open_ch, depth)

FindMatchingBracketForward(ls, row, col) ==
    IF col >= Len(At(ls, row)) THEN None2
    ELSE LET open_ch == At(At(ls, row), col)
         IN  IF open_ch \notin {"{", "[", "("} THEN None2
             ELSE ScanForward(ls, row, col + 1, open_ch, ClosingOf(open_ch), 1)

\* FindFoldableAt, once match is known
FindFoldableAt_match(line_idx, match) ==
    IF match # None2 /\ match[1] > line_idx
    THEN <<line_idx, match[1]>> ELSE None2

\* _find_foldable_at: <<header, end>> or None2
FindFoldableAt(ls, line_idx) ==
    LET stripped == Rstrip(At(ls, line_idx))
    IN  IF stripped = <<>> THEN None2
        ELSE IF stripped[Len(stripped)] \in {"{", "["}
        THEN FindFoldableAt_match(line_idx,
                                  FindMatchingBracketForward(ls, line_idx, Len(stripped) - 1))
        ELSE None2

RECURSIVE FindEnclosingFrom(_, _, _)

\* FindEnclosingFrom, once rng is known
FindEnclosingFrom_rng(ls, i, line_idx, rng) ==
    IF rng # None2 /\ rng[1] < line_idx /\ line_idx <= rng[2] THEN rng
    ELSE FindEnclosingFrom(ls, i - 1, line_idx)

FindEnclosingFrom(ls, i, line_idx) ==
    IF i < 0 THEN None2
    ELSE FindEnclosingFrom_rng(ls, i, line_idx, FindFoldableAt(ls, i))

FindEnclosingFoldable(ls, line_idx) == FindEnclosingFrom(ls, line_idx - 1, line_idx)

IsLineFolded(f, line_idx) ==
    \E i \in 1..Len(f) : f[i][1] < line_idx /\ line_idx <= f[i][2]

RECURSIVE NextVisibleFrom(_, _, _, _, _)
NextVisibleFrom(f, n, idx, direction, line_idx) ==
    IF idx < 0 \/ idx >= n THEN line_idx
    ELSE IF ~IsLineFolded(f, idx) THEN idx
    ELSE NextVisibleFrom(f, n, idx + direction, direction, line_idx)

NextVisibleLine(e, line_idx, direction) ==
    NextVisibleFrom(e.folds, Len(e.lines), line_idx + direction, direction, line_idx)

\* _skip_visible_lines counting every line, hidden or not
SkipLines(e, line_idx, count, direction) ==
    Max(0, Min(Len(e.lines) - 1, line_idx + count * direction))

RECURSIVE SkipVisibleLines(_, _, _, _)
SkipVisibleLines(e, line_idx, count, direction) ==
    IF count <= 0 THEN line_idx
    ELSE LET nxt == NextVisibleLine(e, line_idx, direction)
         IN  IF nxt = line_idx THEN line_idx
             ELSE SkipVisibleLines(e, nxt, count - 1, direction)

UnfoldForLine(f, line_idx) ==
    SelectSeq(f, LAMBDA p : ~(p[1] < line_idx /\ line_idx <= p[2]))

\* ToggleFold, once rng is known
ToggleFold_rng(e, line_idx, rng) ==
    IF rng # None2
    THEN [e EXCEPT !.folds = FoldSet(e.folds, rng[1], rng[2])]
    ELSE IF IsLineFolded(e.folds, line_idx)
    THEN LET i == CHOOSE i \in 1..Len(e.folds) :
                     /\ e.folds[i][1] < line_idx /\ line_idx <= e.folds[i][2]
                     /\ \A j \in 1..(i - 1) :
                           ~(e.folds[j][1] < line_idx /\ line_idx <= e.folds[j][2])
         IN  [e EXCEPT !.folds = FoldDel(e.folds, e.folds[i][1])]
    ELSE IF line_idx \in e.collapsed_strings
    THEN [e EXCEPT !.collapsed_strings = e.collapsed_strings \ {line_idx}]
    ELSE IF FindLongStringAt(e.lines, line_idx) # None3
    THEN [e EXCEPT !.collapsed_strings = e.collapsed_strings \cup {line_idx}]
    ELSE e

\* _toggle_fold that opens every fold around a line inside folds
ToggleFoldCascade(e, line_idx) ==
    IF FoldHas(e.folds, line_idx)
    THEN [e EXCEPT !.folds = FoldDel(e.folds, line_idx)]
    ELSE IF FindFoldableAt(e.lines, line_idx) # None2
    THEN ToggleFold_rng(e, line_idx, FindFoldableAt(e.lines, line_idx))
    ELSE [e EXCEPT !.folds = UnfoldForLine(e.folds, line_idx)]

\* _toggle_fold
ToggleFold(e, line_idx) ==
    IF FoldHas(e.folds, line_idx)
    THEN [e EXCEPT !.folds = FoldDel(e.folds, line_idx)]
    ELSE ToggleFold_rng(e, line_idx, FindFoldableAt(e.lines, line_idx))

OpenFold(e, line_idx) ==
    [e EXCEPT !.folds = FoldDel(e.folds, line_idx),
              !.collapsed_strings = e.collapsed_strings \ {line_idx}]

\* CloseFold, once enclosing is known
CloseFold_enclosing(e, enclosing) ==
    IF enclosing # None2
    THEN [e EXCEPT !.folds = FoldSet(e.folds, enclosing[1], enclosing[2]),
                   !.cursor_row = enclosing[1]]
    ELSE e

\* CloseFold, once rng is known
CloseFold_rng(e, line_idx, rng) ==
    IF rng # None2
    THEN [e EXCEPT !.folds = FoldSet(e.folds, rng[1], rng[2])]
    ELSE IF FindLongStringAt(e.lines, line_idx) # None3
    THEN [e EXCEPT !.collapsed_strings = e.collapsed_strings \cup {line_idx}]
    ELSE CloseFold_enclosing(e, FindEnclosingFoldable(e.lines, line_idx))

CloseFold(e, line_idx) ==
    CloseFold_rng(e, line_idx, FindFoldableAt(e.lines, line_idx))

RECURSIVE FoldAllFrom(_, _, _)

\* FoldAllFrom, once rng is known
FoldAllFrom_rng(ls, i, acc, rng) ==
    IF rng # None2 THEN FoldAllFrom(ls, rng[2] + 1, FoldSet(acc, rng[1], rng[2]))
    ELSE FoldAllFrom(ls, i + 1, acc)

FoldAllFrom(ls, i, acc) ==
    IF i >= Len(ls) THEN acc
    ELSE FoldAllFrom_rng(ls, i, acc, FindFoldableAt(ls, i))

RECURSIVE FoldAllStrings(_, _, _)

\* FoldAllStrings, once rng is known
FoldAllStrings_rng(ls, i, acc, rng) ==
    IF rng # None2 THEN FoldAllStrings(ls, rng[2] + 1, acc)
    ELSE FoldAllStrings(ls, i + 1,
                        IF FindLongStringAt(ls, i) # None3 THEN acc \cup {i} ELSE acc)

\* the collapsed strings the loop of _fold_all adds, from line i
FoldAllStrings(ls, i, acc) ==
    IF i >= Len(ls) THEN acc
    ELSE FoldAllStrings_rng(ls, i, acc, FindFoldableAt(ls, i))

FoldAll(e) ==
    [e EXCEPT !.folds = FoldAllFrom(e.lines, 0, <<>>),
              !.collapsed_strings = FoldAllStrings(e.lines, 0, {})]

UnfoldAll(e) == [e EXCEPT !.folds = <<>>, !.collapsed_strings = {}]

----------------------------------------------------------------------------
(* Helpers of the key handlers. *)

\* the first fold, in dict order, that hides row
SnapRow(f, row) ==
    IF f # <<>> /\ IsLineFolded(f, row)
    THEN LET i == CHOOSE i \in 1..Len(f) :
                     /\ f[i][1] < row /\ row <= f[i][2]
                     /\ \A j \in 1..(i - 1) : ~(f[j][1] < row /\ row <= f[j][2])
         IN  f[i][1]
    ELSE row

\* ClampCursor with the row clamped to len(lines) instead of len(lines) - 1
ClampCursorOffByOne(e) ==
    LET row == Max(0, Min(e.cursor_row, Len(e.lines)))
        line_len == Len(At(e.lines, Min(row, Len(e.lines) - 1)))
        max_col == IF e.mode = "NORMAL"
                   THEN (IF line_len > 0 THEN Max(0, line_len - 1) ELSE 0)
                   ELSE line_len
    IN  [e EXCEPT !.cursor_row = row, !.cursor_col = Max(0, Min(e.cursor_col, max_col))]

\* the collapsed strings after the auto-expand of _clamp_cursor, once info is known
ClampCursor_info(e, row, info) ==
    IF info # None3 /\ e.cursor_col > info[1] + 1 + Min(20, info[2] - info[1] - 2)
    THEN e.collapsed_strings \ {row}
    ELSE e.collapsed_strings

\* ClampCursor, once row is known
ClampCursor_row(e, row) ==
    LET line_len == Len(At(e.lines, row))
        cs2 == IF row \in e.collapsed_strings
               THEN ClampCursor_info(e, row, FindLongStringAt(e.lines, row))
               ELSE e.collapsed_strings
        max_here == IF line_len > 0 THEN Max(0, line_len - 1) ELSE 0
        f2 == IF FoldHas(e.folds, row) /\ e.cursor_col > max_here
              THEN FoldDel(e.folds, row) ELSE e.folds
        max_col == IF e.mode = "NORMAL"
                   THEN (IF line_len > 0 THEN Max(0, line_len - 1) ELSE 0)
                   ELSE line_len
    IN  [e EXCEPT !.cursor_row = row, !.folds = f2, !.collapsed_strings = cs2,
                  !.cursor_col = Max(0, Min(e.cursor_col, max_col))]

\* _clamp_cursor without the clamp of the column
ClampCursorRowOnly(e) ==
    [e EXCEPT !.cursor_row = SnapRow(e.folds, Max(0, Min(e.cursor_row, Len(e.lines) - 1)))]

ClampCursor(e) ==
    LET row0 == Max(0, Min(e.cursor_row, Len(e.lines) - 1))
    IN  ClampCursor_row(e, SnapRow(e.folds, row0))

\* _save_undo without the bound on the stack
SaveUndoUnbounded(e) ==
    [e EXCEPT !.undo_stack = Append(e.undo_stack,
                                    [lines |-> e.lines, row |-> e.cursor_row,
                                     col |-> e.cursor_col]),
              !.redo_stack = <<>>]

SaveUndo(e) ==
    LET pushed == Append(e.undo_stack,
                         [lines |-> e.lines, row |-> e.cursor_row, col |-> e.cursor_col])
    IN  [e EXCEPT !.undo_stack = IF Len(pushed) > 200 THEN Tail(pushed) ELSE pushed,
                  !.redo_stack = <<>>]

\* EnterInsert without the read-only check
EnterInsertUnchecked(e) == [e EXCEPT !.mode = "INSERT", !.status_msg = Msg("-- INSERT --")]

EnterInsert(e) ==
    IF e.read_only THEN [e EXCEPT !.status_msg = Msg("[readonly]")]
    ELSE [e EXCEPT !.mode = "INSERT", !.status_msg = Msg("-- INSERT --")]

ScrollCursorToTop(e) == [e EXCEPT !.scroll_top = e.cursor_row]

\* int(vh * 0.33) for the viewport heights of the model
ScrollCursorToCenter(e) ==
    [e EXCEPT !.scroll_top = Max(0, e.cursor_row - ((VisibleHeight * 33) \div 100))]

CurrentIndent(e) ==
    IF Strip(CurLine(e)) # <<>> THEN LeadingSpaces(CurLine(e)) ELSE 0

----------------------------------------------------------------------------
(* Movement and edit helpers. *)

RECURSIVE SkipWhile(_, _, _)
\* the first index >= col whose character is (word = TRUE) not a word character,
\* (word = FALSE) a word character, or len(line)
SkipWhile(line, col, word) ==
    IF col < Len(line) /\ (IsWordChar(At(line, col)) = word)
    THEN SkipWhile(line, col + 1, word) ELSE col

MoveWordForward(e) ==
    LET line == CurLine(e)
        col == SkipWhile(line, SkipWhile(line, e.cursor_col, TRUE), FALSE)
    IN  IF col >= Len(line) /\ e.cursor_row < Len(e.lines) - 1
        THEN [e EXCEPT !.cursor_row = e.cursor_row + 1,
                       !.cursor_col = LeadingSpaces(At(e.lines, e.cursor_row + 1))]
        ELSE [e EXCEPT !.cursor_col = Min(col, Max(0, Len(line) - 1))]

RECURSIVE BackOverNonWord(_, _)
BackOverNonWord(line, col) ==
    IF col > 0 /\ ~IsWordChar(At(line, col)) THEN BackOverNonWord(line, col - 1) ELSE col

RECURSIVE BackOverWord(_, _)
BackOverWord(line, col) ==
    IF col > 0 /\ IsWordChar(At(line, col - 1)) THEN BackOverWord(line, col - 1) ELSE col

MoveWordBackward(e) ==
    LET line == CurLine(e)
    IN  IF e.cursor_col = 0
        THEN IF e.cursor_row > 0
             THEN [e EXCEPT !.cursor_row = e.cursor_row - 1,
                            !.cursor_col = Max(0, Len(At(e.lines, e.cursor_row - 1)) - 1)]
             ELSE e
        ELSE [e EXCEPT !.cursor_col =
                  BackOverWord(line, BackOverNonWord(line, e.cursor_col - 1))]

\* JumpMatchingBracket, once hit is known
JumpMatchingBracket_hit(e, hit) ==
    IF hit = None2 THEN e
    ELSE [e EXCEPT !.cursor_row = hit[1], !.cursor_col = hit[2]]

JumpMatchingBracket(e) ==
    LET line == CurLine(e)
    IN  IF e.cursor_col >= Len(line) THEN e
        ELSE LET ch == At(line, e.cursor_col)
             IN  JumpMatchingBracket_hit(e,
                                         IF ch \in {"{", "[", "("}
                                         THEN ScanForward(e.lines, e.cursor_row, e.cursor_col + 1,
                                                          ch, ClosingOf(ch), 1)
                                         ELSE IF ch \in {"}", "]", ")"}
                                         THEN ScanBackward(e.lines, e.cursor_row, e.cursor_col - 1,
                                                           ch, OpeningOf(ch), 1)
                                         ELSE None2)

RECURSIVE SkipSpaces(_, _)
SkipSpaces(line, col) ==
    IF col < Len(line) /\ At(line, col) = " " THEN SkipSpaces(line, col + 1) ELSE col

\* DeleteWord, once col1 is known
DeleteWord_col1(e, line, start, col1) ==
    LET col == IF col1 = start /\ col1 < Len(line) THEN col1 + 1 ELSE col1
    IN  [e EXCEPT !.lines = SetAt(e.lines, e.cursor_row, Take(line, start) \o Drop(line, col))]

DeleteWord(e) ==
    LET line == CurLine(e)
        start == e.cursor_col
    IN  DeleteWord_col1(e, line, start, SkipSpaces(line, SkipWhile(line, start, TRUE)))

HasNewline(text) == \E i \in 1..Len(text) : text[i] = "\n"

\* PasteChar, once parts is known
PasteChar_parts(e, insert_col, line, row, parts) ==
    LET n == Len(parts)
        after == Drop(line, insert_col)
        inserted == n - 1
        newrows == [i \in 1..n |->
                       IF i = 1 THEN Take(line, insert_col) \o parts[1]
                       ELSE IF i = n THEN parts[i] \o after
                       ELSE parts[i]]
        e1 == [e EXCEPT !.lines = Take(e.lines, row) \o newrows \o Drop(e.lines, row + 1)]
        e2 == AdjustLineIndices(e1, row + 1, inserted)
    IN  [e2 EXCEPT !.cursor_row = row + inserted,
                   !.cursor_col = Len(parts[n]) - 1]

\* the char-wise branch shared by _paste_after and _paste_before
PasteChar(e, insert_col) ==
    LET text == e.yank_buffer[1]
        line == CurLine(e)
        row == e.cursor_row
    IN  IF ~HasNewline(text)
        THEN [e EXCEPT !.lines = SetAt(e.lines, row,
                                       Take(line, insert_col) \o text \o Drop(line, insert_col)),
                       !.cursor_col = insert_col + Len(text) - 1]
        ELSE PasteChar_parts(e, insert_col, line, row, SplitLines(text))

\* PasteAfter, once e0 is known
PasteAfter_e0(e0) ==
    IF e0.yank_type = "char"
    THEN PasteChar(e0, Min(e0.cursor_col + 1, Len(CurLine(e0))))
    ELSE LET inserted == Len(e0.yank_buffer)
             e1 == [e0 EXCEPT !.lines = Take(e0.lines, e0.cursor_row + 1)
                                         \o e0.yank_buffer
                                         \o Drop(e0.lines, e0.cursor_row + 1)]
             e2 == AdjustLineIndices(e1, e0.cursor_row + 1, inserted)
         IN  [e2 EXCEPT !.cursor_row = e0.cursor_row + 1, !.cursor_col = 0]

PasteAfter(e) ==
    IF e.yank_buffer = <<>> THEN e
    ELSE PasteAfter_e0(SaveUndo(e))

\* PasteBefore, once e0 is known
PasteBefore_e0(e0) ==
    IF e0.yank_type = "char"
    THEN PasteChar(e0, e0.cursor_col)
    ELSE LET inserted == Len(e0.yank_buffer)
             e1 == [e0 EXCEPT !.lines = Take(e0.lines, e0.cursor_row)
                                         \o e0.yank_buffer
                                         \o Drop(e0.lines, e0.cursor_row)]
             e2 == AdjustLineIndices(e1, e0.cursor_row, inserted)
         IN  [e2 EXCEPT !.cursor_col = 0]

PasteBefore(e) ==
    IF e.yank_buffer = <<>> THEN e
    ELSE PasteBefore_e0(SaveUndo(e))

\* JoinLines, once e0 is known
JoinLines_e0(e0) ==
    LET cur == Rstrip(CurLine(e0))
        nxt == Lstrip(At(e0.lines, e0.cursor_row + 1))
        deleted_at == e0.cursor_row + 1
        e1 == [e0 EXCEPT !.cursor_col = Len(cur),
                         !.lines = RemoveAt(SetAt(e0.lines, e0.cursor_row,
                                                  cur \o <<" ">> \o nxt), deleted_at)]
    IN  AdjustLineIndices(e1, deleted_at, -1)

JoinLines(e) ==
    IF e.cursor_row >= Len(e.lines) - 1 THEN e
    ELSE JoinLines_e0(SaveUndo(e))

Undo(e) ==
    IF e.undo_stack = <<>> THEN [e EXCEPT !.status_msg = Msg("nothing to undo")]
    ELSE LET top == e.undo_stack[Len(e.undo_stack)]
         IN  [e EXCEPT !.redo_stack = Append(e.redo_stack,
                                             [lines |-> e.lines, row |-> e.cursor_row,
                                              col |-> e.cursor_col]),
                       !.undo_stack = SubSeq(e.undo_stack, 1, Len(e.undo_stack) - 1),
                       !.lines = top.lines, !.cursor_row = top.row, !.cursor_col = top.col,
                       !.visual_mode = "", !.folds = <<>>, !.collapsed_strings = {},
                       !.status_msg = Msg("undone")]

Redo(e) ==
    IF e.redo_stack = <<>> THEN [e EXCEPT !.status_msg = Msg("nothing to redo")]
    ELSE LET top == e.redo_stack[Len(e.redo_stack)]
         IN  [e EXCEPT !.undo_stack = Append(e.undo_stack,
                                             [lines |-> e.lines, row |-> e.cursor_row,
                                              col |-> e.cursor_col]),
                       !.redo_stack = SubSeq(e.redo_stack, 1, Len(e.redo_stack) - 1),
                       !.lines = top.lines, !.cursor_row = top.row, !.cursor_col = top.col,
                       !.visual_mode = "", !.folds = <<>>, !.collapsed_strings = {},
                       !.status_msg = Msg("redone")]

----------------------------------------------------------------------------
(* Visual mode operators (_visual.py). *)

\* (a1, a2) <= (b1, b2) on Python tuples
PairLeq(a1, a2, b1, b2) == a1 < b1 \/ (a1 = b1 /\ a2 <= b2)

\* _visual_selection_range: <<sr, sc, er, ec>>; reading self.lines[ar] raises
\* IndexError when the anchor row is past the end (marked by sr = -1)
VisualSelectionRange(e) ==
    LET ar == e.visual_anchor_row
        ac == e.visual_anchor_col
        cr == e.cursor_row
        cc == e.cursor_col
    IN  IF e.visual_mode = "V"
        THEN IF ar <= cr THEN <<ar, 0, cr, Len(At(e.lines, cr))>>
             ELSE IF ar >= Len(e.lines) THEN <<-1, 0, 0, 0>>
             ELSE <<cr, 0, ar, Len(At(e.lines, ar))>>
        ELSE IF PairLeq(ar, ac, cr, cc) THEN <<ar, ac, cr, cc>>
        ELSE <<cr, cc, ar, ac>>

\* ExecuteVisualLinewise, once ea is known
ExecuteVisualLinewise_ea(ea) ==
    IF ea.lines = <<>> THEN [ea EXCEPT !.lines = << <<>> >>]
    ELSE ea

\* ExecuteVisualLinewise, once indent is known
ExecuteVisualLinewise_indent(e3, indent) ==
    LET e4 == IF Len(e3.lines) = 1 /\ e3.lines[1] = <<>>
              THEN [e3 EXCEPT !.lines = <<Spaces(indent)>>]
              ELSE AdjustLineIndices(
                       [e3 EXCEPT !.lines = InsertAt(e3.lines, e3.cursor_row,
                                                      Spaces(indent))],
                       e3.cursor_row, 1)
    IN  EnterInsert([e4 EXCEPT !.cursor_col = indent])

\* ExecuteVisualLinewise_e1, once e2 is known
ExecuteVisualLinewise_e2(op, sr, selected, e2) ==
    LET e3 == [e2 EXCEPT !.cursor_row = Min(sr, Len(e2.lines) - 1), !.cursor_col = 0]
    IN  IF op = "c"
        THEN ExecuteVisualLinewise_indent(e3,
                                          IF Strip(selected[1]) # <<>>
                                          THEN LeadingSpaces(selected[1]) ELSE 0)
        ELSE [e3 EXCEPT !.status_msg = MsgN("lines deleted", Len(selected))]

\* ExecuteVisualLinewise, once e1, deleted_count are known
ExecuteVisualLinewise_e1(op, sr, er, selected, e1, deleted_count) ==
    ExecuteVisualLinewise_e2(op, sr, selected,
                             IF er < Len(e1.lines) - 1 \/ sr > 0
                             THEN LET cut == Take(e1.lines, sr) \o Drop(e1.lines, er + 1)
                                  IN  ExecuteVisualLinewise_ea(AdjustLineIndices([e1 EXCEPT !.lines = cut],
                                                                                 sr, -deleted_count))
                             ELSE [e1 EXCEPT !.lines = Take(e1.lines, sr) \o << <<>> >>
                                                        \o Drop(e1.lines, er + 1),
                                             !.folds = <<>>, !.collapsed_strings = {}])

\* ExecuteVisualLinewise, once selected, e0 are known
ExecuteVisualLinewise_selected(op, sr, er, selected, e0) ==
    IF op = "y"
    THEN [e0 EXCEPT !.yank_buffer = selected, !.cursor_row = sr, !.cursor_col = 0,
                    !.status_msg = MsgN("lines yanked", Len(selected))]
    ELSE
    ExecuteVisualLinewise_e1(op, sr, er, selected,
                             [SaveUndo(e0) EXCEPT !.yank_buffer = selected],
                             er - sr + 1)

\* ExecuteVisualLinewise, once sr, er are known
ExecuteVisualLinewise_sr(e, op, sr, er) ==
    IF sr = -1 THEN Raise(e)
    ELSE
    ExecuteVisualLinewise_selected(op, sr, er, SubSeq(e.lines, sr + 1, er + 1),
                                   [e EXCEPT !.yank_type = "line"])

ExecuteVisualLinewise(e, op) ==
    LET rng == VisualSelectionRange(e)
    IN  ExecuteVisualLinewise_sr(e, op, rng[1], rng[3])

\* ExecuteVisualCharwise_e1, once e3 is known
ExecuteVisualCharwise_e3(op, e3) ==
    IF op = "c" THEN EnterInsert(e3)
    ELSE [e3 EXCEPT !.status_msg = Msg("deleted")]

\* ExecuteVisualCharwise, once e1 is known
ExecuteVisualCharwise_e1(op, sr, sc, er, ec, e1) ==
    LET e2 == IF sr = er
              THEN [e1 EXCEPT !.lines = SetAt(e1.lines, sr,
                        Take(At(e1.lines, sr), sc) \o Drop(At(e1.lines, sr), ec + 1))]
              ELSE LET before == Take(At(e1.lines, sr), sc)
                       after == Drop(At(e1.lines, er), ec + 1)
                       deleted_count == er - sr
                       cut == Take(e1.lines, sr) \o <<before \o after>>
                              \o Drop(e1.lines, er + 1)
                   IN  AdjustLineIndices([e1 EXCEPT !.lines = cut],
                                         sr + 1, -deleted_count)
    IN  ExecuteVisualCharwise_e3(op, [e2 EXCEPT !.cursor_row = sr, !.cursor_col = sc])

\* ExecuteVisualCharwise, once text is known
ExecuteVisualCharwise_text(op, sr, sc, er, ec, e0, text) ==
    IF op = "y"
    THEN [e0 EXCEPT !.yank_buffer = <<text>>, !.cursor_row = sr, !.cursor_col = sc,
                    !.status_msg = Msg("yanked")]
    ELSE
    ExecuteVisualCharwise_e1(op, sr, sc, er, ec,
                             [SaveUndo(e0) EXCEPT !.yank_buffer = <<text>>])

\* ExecuteVisualCharwise, once rng is known
ExecuteVisualCharwise_rng(e, op, rng) ==
    LET sr == rng[1]
        sc == rng[2]
        er == rng[3]
        ec == rng[4]
        e0 == [e EXCEPT !.yank_type = "char"]
    IN  IF er >= Len(e.lines) THEN Raise(e0)
        ELSE
        ExecuteVisualCharwise_text(op, sr, sc, er, ec, e0,
                                   IF sr = er THEN Slice(At(e.lines, sr), sc, ec + 1)
                                   ELSE StrJoin(<<Drop(At(e.lines, sr), sc)>>
                                                \o SubSeq(e.lines, sr + 2, er)
                                                \o <<Take(At(e.lines, er), ec + 1)>>))

ExecuteVisualCharwise(e, op) ==
    ExecuteVisualCharwise_rng(e, op, VisualSelectionRange(e))

\* ExecuteVisualOperator, once r is known
ExecuteVisualOperator_r(r) ==
    IF r.crashed THEN r ELSE [r EXCEPT !.visual_mode = ""]

ExecuteVisualOperator(e, op) ==
    IF op \in {"d", "c"} /\ e.read_only
    THEN [e EXCEPT !.status_msg = Msg("[readonly]"), !.visual_mode = ""]
    ELSE ExecuteVisualOperator_r(IF e.visual_mode = "V" THEN ExecuteVisualLinewise(e, op)
                                 ELSE ExecuteVisualCharwise(e, op))

----------------------------------------------------------------------------
(* JSON values, json.loads and json.dumps.  A value is [t, v]: t is the    *)
(* type tag, v the payload (an object is a sequence of <<key, value>> in   *)
(* dict order).  The buffers of the model hold integers only, so a number  *)
(* with a fraction or an exponent is outside the parser.                   *)

JNull == [t |-> "null", v |-> 0]

JBool(b) == [t |-> "bool", v |-> b]

JNum(n) == [t |-> "num", v |-> n]

JStr(cs) == [t |-> "str", v |-> cs]

JArr(items) == [t |-> "arr", v |-> items]

JObj(pairs) == [t |-> "obj", v |-> pairs]

IsComplex(val) == val.t \in {"obj", "arr"}

Digits == <<"0", "1", "2", "3", "4", "5", "6", "7", "8", "9">>

IsDigit(c) == \E i \in 1..10 : Digits[i] = c

DigitVal(c) == (CHOOSE i \in 1..10 : Digits[i] = c) - 1

RECURSIVE AtoI(_)
AtoI(cs) == IF cs = <<>> THEN 0 ELSE AtoI(SubSeq(cs, 1, Len(cs) - 1)) * 10 + DigitVal(cs[Len(cs)])

RECURSIVE ItoA(_)
ItoA(n) == IF n < 10 THEN <<Digits[n + 1]>> ELSE ItoA(n \div 10) \o <<Digits[(n % 10) + 1]>>

\* dict[key] = val
DictSet(pairs, key, val) ==
    IF \E i \in 1..Len(pairs) : pairs[i][1] = key
    THEN [i \in 1..Len(pairs) |-> IF pairs[i][1] = key THEN <<key, val>> ELSE pairs[i]]
    ELSE Append(pairs, <<key, val>>)

DictHas(pairs, key) == \E i \in 1..Len(pairs) : pairs[i][1] = key

DictGet(pairs, key) == pairs[CHOOSE i \in 1..Len(pairs) : pairs[i][1] = key][2]

PFail(i) == [ok |-> FALSE, v |-> JNull, i |-> i]

POk(val, i) == [ok |-> TRUE, v |-> val, i |-> i]

RECURSIVE SkipWs(_, _)
SkipWs(s, i) ==
    IF i < Len(s) /\ At(s, i) \in {" ", "\t", "\n", "\r"} THEN SkipWs(s, i + 1) ELSE i

\* json.decoder.scanstring from the character after the opening quote
RECURSIVE ScanString(_, _, _)
ScanString(s, i, acc) ==
    IF i >= Len(s) THEN PFail(i)
    ELSE LET c == At(s, i)
         IN  IF c = "\"" THEN POk(JStr(acc), i + 1)
             ELSE IF c \in {"\n", "\t", "\r"} THEN PFail(i)
             ELSE IF c = "\\"
             THEN IF i + 1 < Len(s) /\ At(s, i + 1) \in {"\"", "\\", "/"}
                  THEN ScanString(s, i + 2, Append(acc, At(s, i + 1)))
                  ELSE PFail(i)
             ELSE ScanString(s, i + 1, Append(acc, c))

RECURSIVE DigitRun(_, _)
DigitRun(s, i) == IF i < Len(s) /\ IsDigit(At(s, i)) THEN DigitRun(s, i + 1) ELSE i

\* ScanNumber, once d1 is known
ScanNumber_d1(s, i, neg, d0, d1) ==
    LET n == AtoI(Slice(s, d0, d1))
    IN  IF d1 < Len(s) /\ At(s, d1) \in {".", "e", "E"} THEN PFail(i)
        ELSE POk(JNum(IF neg THEN 0 - n ELSE n), d1)

\* json.scanner NUMBER_RE, integers only
ScanNumber(s, i) ==
    LET neg == i < Len(s) /\ At(s, i) = "-"
        d0 == IF neg THEN i + 1 ELSE i
    IN  IF d0 >= Len(s) \/ ~IsDigit(At(s, d0)) THEN PFail(i)
        ELSE ScanNumber_d1(s, i, neg, d0, IF At(s, d0) = "0" THEN d0 + 1 ELSE DigitRun(s, d0))

RECURSIVE ScanOnce(_, _), ScanMembers(_, _, _), ScanItems(_, _, _)
\* py_make_scanner._scan_once
ScanOnce(s, i) ==
    IF i >= Len(s) THEN PFail(i)
    ELSE LET c == At(s, i)
         IN  IF c = "\"" THEN ScanString(s, i + 1, <<>>)
             ELSE IF c = "{"
             THEN LET j == SkipWs(s, i + 1)
                  IN  IF j < Len(s) /\ At(s, j) = "}" THEN POk(JObj(<<>>), j + 1)
                      ELSE ScanMembers(s, j, <<>>)
             ELSE IF c = "["
             THEN LET j == SkipWs(s, i + 1)
                  IN  IF j < Len(s) /\ At(s, j) = "]" THEN POk(JArr(<<>>), j + 1)
                      ELSE ScanItems(s, j, <<>>)
             ELSE IF StartsWith(Drop(s, i), <<"n", "u", "l", "l">>) THEN POk(JNull, i + 4)
             ELSE IF StartsWith(Drop(s, i), <<"t", "r", "u", "e">>) THEN POk(JBool(TRUE), i + 4)
             ELSE IF StartsWith(Drop(s, i), <<"f", "a", "l", "s", "e">>)
             THEN POk(JBool(FALSE), i + 5)
             ELSE ScanNumber(s, i)

\* ScanMembers, once acc2, d are known
ScanMembers_acc2(s, acc2, d) ==
    IF d >= Len(s) THEN PFail(d)
    ELSE IF At(s, d) = "}" THEN POk(JObj(acc2), d + 1)
    ELSE IF At(s, d) = ","
    THEN ScanMembers(s, SkipWs(s, d + 1), acc2)
    ELSE PFail(d)

\* ScanMembers, once val is known
ScanMembers_val(s, acc, k, val) ==
    IF ~val.ok THEN val
    ELSE ScanMembers_acc2(s, DictSet(acc, k.v.v, val.v),
                          SkipWs(s, val.i))

\* ScanMembers, once c is known
ScanMembers_c(s, acc, k, c) ==
    IF c >= Len(s) \/ At(s, c) # ":" THEN PFail(c)
    ELSE ScanMembers_val(s, acc, k, ScanOnce(s, SkipWs(s, c + 1)))

\* ScanMembers, once k is known
ScanMembers_k(s, acc, k) ==
    IF ~k.ok THEN k
    ELSE ScanMembers_c(s, acc, k, SkipWs(s, k.i))

\* the member loop of json.decoder.JSONObject; i is at the opening quote of a key
ScanMembers(s, i, acc) ==
    IF i >= Len(s) \/ At(s, i) # "\"" THEN PFail(i)
    ELSE ScanMembers_k(s, acc, ScanString(s, i + 1, <<>>))

\* ScanItems, once acc2, d are known
ScanItems_acc2(s, acc2, d) ==
    IF d >= Len(s) THEN PFail(d)
    ELSE IF At(s, d) = "]" THEN POk(JArr(acc2), d + 1)
    ELSE IF At(s, d) = "," THEN ScanItems(s, SkipWs(s, d + 1), acc2)
    ELSE PFail(d)

\* ScanItems, once val is known
ScanItems_val(s, acc, val) ==
    IF ~val.ok THEN val
    ELSE ScanItems_acc2(s, Append(acc, val.v), SkipWs(s, val.i))

\* the item loop of json.decoder.JSONArray
ScanItems(s, i, acc) ==
    ScanItems_val(s, acc, ScanOnce(s, i))

\* JsonLoads, once r is known
JsonLoads_r(s, r) ==
    IF r.ok /\ SkipWs(s, r.i) = Len(s) THEN r ELSE PFail(r.i)

\* json.loads: [ok, v]
JsonLoads(s) ==
    JsonLoads_r(s, ScanOnce(s, SkipWs(s, 0)))

RECURSIVE EscapeChars(_)
EscapeChars(cs) ==
    IF cs = <<>> THEN <<>>
    ELSE (IF Head(cs) \in {"\"", "\\"} THEN <<"\\", Head(cs)>>
          ELSE IF Head(cs) = "\n" THEN <<"\\", "n">>
          ELSE <<Head(cs)>>) \o EscapeChars(Tail(cs))

\* json.dumps(str, ensure_ascii=False)
DumpsStr(cs) == <<"\"">> \o EscapeChars(cs) \o <<"\"">>

RECURSIVE Dumps(_), DumpsPairs(_), DumpsItems(_)
\* json.dumps(value, ensure_ascii=False)
Dumps(val) ==
    IF val.t = "null" THEN <<"n", "u", "l", "l">>
    ELSE IF val.t = "bool"
    THEN (IF val.v THEN <<"t", "r", "u", "e">> ELSE <<"f", "a", "l", "s", "e">>)
    ELSE IF val.t = "num" THEN (IF val.v < 0 THEN <<"-">> \o ItoA(0 - val.v) ELSE ItoA(val.v))
    ELSE IF val.t = "str" THEN DumpsStr(val.v)
    ELSE IF val.t = "arr" THEN <<"[">> \o DumpsItems(val.v) \o <<"]">>
    ELSE <<"{">> \o DumpsPairs(val.v) \o <<"}">>

DumpsPairs(pairs) ==
    IF pairs = <<>> THEN <<>>
    ELSE DumpsStr(pairs[1][1]) \o <<":", " ">> \o Dumps(pairs[1][2])
         \o (IF Len(pairs) > 1 THEN <<",", " ">> \o DumpsPairs(Tail(pairs)) ELSE <<>>)

DumpsItems(items) ==
    IF items = <<>> THEN <<>>
    ELSE Dumps(items[1])
         \o (IF Len(items) > 1 THEN <<",", " ">> \o DumpsItems(Tail(items)) ELSE <<>>)

RECURSIVE DumpsIndent(_, _), DumpsIndentPairs(_, _), DumpsIndentItems(_, _)
\* json.dumps(value, indent=4, ensure_ascii=False) as a sequence of lines;
\* depth is the nesting level of the value
DumpsIndent(val, depth) ==
    IF val.t = "arr" /\ val.v # <<>>
    THEN << <<"[">> >> \o DumpsIndentItems(val.v, depth + 1) \o <<Spaces(4 * depth) \o <<"]">> >>
    ELSE IF val.t = "obj" /\ val.v # <<>>
    THEN << <<"{">> >> \o DumpsIndentPairs(val.v, depth + 1) \o <<Spaces(4 * depth) \o <<"}">> >>
    ELSE <<Dumps(val)>>

\* DumpsIndentPairs, once body is known
DumpsIndentPairs_body(pairs, depth, body) ==
    LET first == Spaces(4 * depth) \o DumpsStr(pairs[1][1]) \o <<":", " ">> \o body[1]
        rows == <<first>> \o Tail(body)
        comma == IF Len(pairs) > 1 THEN <<",">> ELSE <<>>
        closed == [rows EXCEPT ![Len(rows)] = rows[Len(rows)] \o comma]
    IN  closed \o DumpsIndentPairs(Tail(pairs), depth)

\* the lines of the members: each member starts on its own indented line and
\* all but the last end with a comma
DumpsIndentPairs(pairs, depth) ==
    IF pairs = <<>> THEN <<>>
    ELSE DumpsIndentPairs_body(pairs, depth, DumpsIndent(pairs[1][2], depth))

\* DumpsIndentItems, once body is known
DumpsIndentItems_body(items, depth, body) ==
    LET rows == <<Spaces(4 * depth) \o body[1]>> \o Tail(body)
        comma == IF Len(items) > 1 THEN <<",">> ELSE <<>>
        closed == [rows EXCEPT ![Len(rows)] = rows[Len(rows)] \o comma]
    IN  closed \o DumpsIndentItems(Tail(items), depth)

DumpsIndentItems(items, depth) ==
    IF items = <<>> THEN <<>>
    ELSE DumpsIndentItems_body(items, depth, DumpsIndent(items[1], depth))

\* self.get_content()
GetContent(e) == StrJoin(e.lines)

----------------------------------------------------------------------------
(* Key events and the dot-repeat recorder.  An event is [key, char]: char  *)
(* is "" for a key without a printable character.                          *)

Ev(key, char) == [key |-> key, char |-> char]

DotStart(e, ev) ==
    IF e.dot_replaying THEN e
    ELSE [e EXCEPT !.dot_buffer = <<ev>>, !.dot_recording = TRUE]

DotStop(e) == [e EXCEPT !.dot_recording = FALSE]

RECURSIVE FindStrings(_, _, _)

\* FindStrings, once r is known
FindStrings_r(line, i, acc, j, quoted, r) ==
    FindStrings(line, j + 1,
        IF r.ok /\ r.i = Len(quoted)
        THEN Append(acc, <<i, j + 1, r.v.v>>) ELSE acc)

\* the string literals of a line with their positions: <<start, end, content>>
FindStrings(line, i, acc) ==
    IF i >= Len(line) THEN acc
    ELSE IF At(line, i) # "\"" THEN FindStrings(line, i + 1, acc)
    ELSE LET closes == {j \in (i + 1)..(Len(line) - 1) :
                            At(line, j) = "\"" /\ At(line, j - 1) # "\\"}
         IN  IF closes = {} THEN acc
             ELSE LET j == CHOOSE c \in closes : \A d \in closes : c <= d
                      quoted == Slice(line, i, j + 1)
                  IN  FindStrings_r(line, i, acc, j, quoted, ScanString(quoted, 1, <<>>))

\* FindStringAtCursor, once before is known
FindStringAtCursor_before(before) ==
    before # <<>> /\ before[Len(before)] = ":"

\* FindStringAtCursor, once strings is known
FindStringAtCursor_strings(line, strings) ==
    LET vals == {k \in 1..Len(strings) :
                    FindStringAtCursor_before(Rstrip(Take(line, strings[k][1])))}
    IN  IF vals = {} THEN <<-1, -1, <<>> >>
        ELSE strings[CHOOSE k \in vals : \A m \in vals : k <= m]

FindStringAtCursor(e) ==
    LET line == CurLine(e)
    IN  FindStringAtCursor_strings(line, FindStrings(line, 0, <<>>))

\* EditEmbeddedJson, once parsed is known
EditEmbeddedJson_parsed(e, parsed) ==
    IF ~parsed.ok
    THEN [e EXCEPT !.status_msg = Msg("string is not valid JSON")]
    ELSE IF ~IsComplex(parsed.v)
    THEN [e EXCEPT !.status_msg = Msg("string is not a list or dict")]
    ELSE e

\* EditEmbeddedJson, once result is known
EditEmbeddedJson_result(e, result) ==
    IF result[1] = -1
    THEN [e EXCEPT !.status_msg = Msg("cursor not on a string value")]
    ELSE EditEmbeddedJson_parsed(e, JsonLoads(result[3]))

\* the request for the embedded editor is a posted message, not widget state
EditEmbeddedJson(e) ==
    EditEmbeddedJson_result(e, FindStringAtCursor(e))

\* HandlePending, once e3 is known
HandlePending_e3(row, e3) ==
    IF row >= Len(e3.lines)
    THEN [e3 EXCEPT !.cursor_row = Len(e3.lines) - 1] ELSE e3

\* HandlePending, once e1 is known
HandlePending_e1(row, e1) ==
    LET e2 == IF Len(e1.lines) > 1
              THEN HandlePending_e3(row,
                                    AdjustLineIndices(
                                        [e1 EXCEPT !.lines = RemoveAt(e1.lines, row)], row, -1))
              ELSE [e1 EXCEPT !.lines = SetAt(e1.lines, 0, <<>>)]
    IN  DotStop([e2 EXCEPT !.cursor_col = 0, !.status_msg = Msg("line deleted")])

HandlePending(e, char, key) ==
    IF key = "escape" \/ char = ""
    THEN DotStop([e EXCEPT !.pending = "", !.status_msg = Msg("")])
    ELSE
    LET first == e.pending
        combo == first \o char
        e0 == [e EXCEPT !.pending = ""]
        row == e0.cursor_row
        col == e0.cursor_col
        line == CurLine(e0)
    IN  IF e0.read_only /\ combo \notin {"yy", "gg", "ej"}
        THEN [e0 EXCEPT !.status_msg = Msg("[readonly]")]
        ELSE IF combo = "dd"
        THEN HandlePending_e1(row,
                              [SaveUndo(e0) EXCEPT !.yank_type = "line", !.yank_buffer = <<line>>])
        ELSE IF combo = "dw" THEN DotStop(DeleteWord(SaveUndo(e0)))
        ELSE IF combo = "d$"
        THEN DotStop([SaveUndo(e0) EXCEPT !.lines = SetAt(e0.lines, row, Take(line, col))])
        ELSE IF combo = "d0"
        THEN DotStop([SaveUndo(e0) EXCEPT !.lines = SetAt(e0.lines, row, Drop(line, col)),
                                          !.cursor_col = 0])
        ELSE IF combo = "cw" THEN EnterInsert(DeleteWord(SaveUndo(e0)))
        ELSE IF combo = "cc"
        THEN LET indent == CurrentIndent(e0)
             IN  EnterInsert([SaveUndo(e0) EXCEPT !.yank_type = "line",
                                  !.yank_buffer = <<line>>,
                                  !.lines = SetAt(e0.lines, row, Spaces(indent)),
                                  !.cursor_col = indent])
        ELSE IF combo = "yy"
        THEN [e0 EXCEPT !.yank_type = "line", !.yank_buffer = <<line>>,
                        !.status_msg = Msg("line yanked")]
        ELSE IF combo = "gg"
        THEN ScrollCursorToTop([e0 EXCEPT !.cursor_row = 0, !.cursor_col = 0])
        ELSE IF first = "r"
        THEN DotStop([SaveUndo(e0) EXCEPT !.lines =
                        IF col < Len(line)
                        THEN SetAt(e0.lines, row, Take(line, col) \o <<char>> \o Drop(line, col + 1))
                        ELSE e0.lines])
        ELSE IF combo = "ej" THEN EditEmbeddedJson(e0)
        ELSE IF combo = "za" THEN ToggleFold(e0, row)
        ELSE IF combo = "zo" THEN OpenFold(e0, row)
        ELSE IF combo = "zc" THEN CloseFold(e0, row)
        ELSE IF combo = "zM" THEN FoldAll(e0)
        ELSE IF combo = "zR" THEN UnfoldAll(e0)
        ELSE [DotStop(e0) EXCEPT !.status_msg = Msg("unknown: " \o combo)]

----------------------------------------------------------------------------
(* JSONPath (_jsonpath.py).  A path is a sequence of steps [k, s, i]: a    *)
(* key step carries the key in s, an index step the index in i.            *)

KeyStep(key) == [k |-> "key", s |-> key, i |-> 0]

IdxStep(n) == [k |-> "idx", s |-> <<>>, i |-> n]

\* the path that stands for a ValueError raised during the traversal
ErrPath == <<[k |-> "err", s |-> <<>>, i |-> 0]>>

\* str.find(ch, from)
Find(str, ch, from) ==
    LET hits == {j \in from..(Len(str) - 1) : At(str, j) = ch}
    IN  IF hits = {} THEN -1 ELSE CHOOSE j \in hits : \A m \in hits : j <= m

IsDigits(str) == str # <<>> /\ \A j \in 1..Len(str) : IsDigit(str[j])

RECURSIVE LstripCh(_, _)
LstripCh(str, chs) ==
    IF str # <<>> /\ Head(str) \in chs THEN LstripCh(Tail(str), chs) ELSE str

RECURSIVE RstripCh(_, _)
RstripCh(str, chs) ==
    IF str # <<>> /\ str[Len(str)] \in chs THEN RstripCh(SubSeq(str, 1, Len(str) - 1), chs)
    ELSE str

NextSegment(path) ==
    IF path = <<>> THEN [none |-> TRUE, seg |-> <<>>, rest |-> <<>>]
    ELSE IF Head(path) = "["
    THEN LET end == Find(path, "]", 0)
         IN  IF end = -1 THEN [none |-> TRUE, seg |-> <<>>, rest |-> path]
             ELSE [none |-> FALSE, seg |-> Slice(path, 1, end), rest |-> Drop(path, end + 1)]
    ELSE IF Head(path) = "." THEN [none |-> TRUE, seg |-> <<>>, rest |-> path]
    ELSE LET stops == {j \in 0..(Len(path) - 1) : At(path, j) \in {".", "[", "]"}}
             end == IF stops = {} THEN Len(path)
                    ELSE CHOOSE j \in stops : \A m \in stops : j <= m
         IN  [none |-> FALSE, seg |-> Take(path, end), rest |-> Drop(path, end)]

\* data.items() or enumerate(data) as <<step, value>>
Children(data) ==
    IF data.t = "obj"
    THEN [j \in 1..Len(data.v) |-> <<KeyStep(data.v[j][1]), data.v[j][2]>>]
    ELSE IF data.t = "arr"
    THEN [j \in 1..Len(data.v) |-> <<IdxStep(j - 1), data.v[j]>>]
    ELSE <<>>

RECURSIVE Traverse(_, _, _), TraverseAll(_, _, _, _), RecursiveDescent(_, _, _, _)
RECURSIVE DescentAll(_, _, _, _, _)

\* Traverse, once sg is known
Traverse_sg(data, current_path, sg) ==
    IF sg.none THEN <<>>
    ELSE RecursiveDescent(data, sg.seg, sg.rest, current_path)

\* Traverse, once sg is known
Traverse_sg2(data, current_path, sg) ==
    IF sg.none THEN <<>>
    ELSE IF sg.seg = <<"*">>
    THEN TraverseAll(Children(data), 1, sg.rest, current_path)
    ELSE IF data.t = "obj" /\ DictHas(data.v, sg.seg)
    THEN Traverse(DictGet(data.v, sg.seg), sg.rest,
                  Append(current_path, KeyStep(sg.seg)))
    ELSE <<>>

\* Traverse, once idx, n are known
Traverse_idx(data, current_path, after, idx, n) ==
    IF data.t = "arr" /\ 0 - n <= idx /\ idx < n
    THEN Traverse(data.v[(IF idx < 0 THEN idx + n ELSE idx) + 1],
                  after, Append(current_path, IdxStep(idx)))
    ELSE <<>>

\* Traverse, once key is known
Traverse_key(data, current_path, after, key) ==
    IF data.t = "obj" /\ DictHas(data.v, key)
    THEN Traverse(DictGet(data.v, key), after,
                  Append(current_path, KeyStep(key)))
    ELSE <<>>

\* Traverse, once index_str, after are known
Traverse_index_str(data, current_path, end, index_str, after) ==
    LET digits == LstripCh(index_str, {"-"})
        minus == Len(index_str) - Len(digits)
    IN  IF end = -1 THEN <<ErrPath>>
        ELSE IF index_str = <<"*">>
        THEN TraverseAll(Children(data), 1, after, current_path)
        ELSE IF IsDigits(digits)
        THEN IF minus > 1 THEN <<ErrPath>>
             ELSE Traverse_idx(data, current_path, after,
                               IF minus = 1 THEN 0 - AtoI(digits) ELSE AtoI(digits),
                               IF data.t = "arr" THEN Len(data.v) ELSE 0)
        ELSE Traverse_key(data, current_path, after,
                          RstripCh(LstripCh(index_str, {"'", "\""}), {"'", "\""}))

\* _traverse: the paths appended to results, in order
Traverse(data, remaining_path, current_path) ==
    IF remaining_path = <<>> THEN <<current_path>>
    ELSE IF StartsWith(remaining_path, <<".", ".">>)
    THEN Traverse_sg(data, current_path, NextSegment(Drop(remaining_path, 2)))
    ELSE IF Head(remaining_path) = "."
    THEN Traverse_sg2(data, current_path, NextSegment(Drop(remaining_path, 1)))
    ELSE IF Head(remaining_path) = "["
    THEN LET end == Find(remaining_path, "]", 0)
         IN  Traverse_index_str(data, current_path, end, Slice(remaining_path, 1, end),
                                Drop(remaining_path, end + 1))
    ELSE <<>>

TraverseAll(kids, j, after, current_path) ==
    IF j > Len(kids) THEN <<>>
    ELSE Traverse(kids[j][2], after, Append(current_path, kids[j][1]))
         \o TraverseAll(kids, j + 1, after, current_path)

RecursiveDescent(data, target_key, remaining_path, current_path) ==
    DescentAll(data.t, Children(data), 1, <<target_key, remaining_path>>, current_path)

DescentAll(t, kids, j, target, current_path) ==
    IF j > Len(kids) THEN <<>>
    ELSE LET here == Append(current_path, kids[j][1])
             hit == t = "obj" /\ (target[1] = <<"*">> \/ kids[j][1].s = target[1])
         IN  (IF hit THEN Traverse(kids[j][2], target[2], here) ELSE <<>>)
             \o RecursiveDescent(kids[j][2], target[1], target[2], here)
             \o DescentAll(t, kids, j + 1, target, current_path)

\* JsonpathFind, once results is known
JsonpathFind_results(results) ==
    IF \E j \in 1..Len(results) : results[j] = ErrPath
    THEN [err |-> TRUE, paths |-> <<>>]
    ELSE [err |-> FALSE, paths |-> results]

\* jsonpath_find: [err, paths]; err stands for the ValueError
JsonpathFind(data, path) ==
    IF path = <<>> \/ Head(path) # "$" THEN [err |-> TRUE, paths |-> <<>>]
    ELSE JsonpathFind_results(Traverse(data, Tail(path), <<>>))

\* ParseJsonValue_value_str, once parsed is known
ParseJsonValue_parsed(value_str, parsed) ==
    IF value_str = <<>> THEN JNull
    ELSE IF parsed.ok THEN parsed.v
    ELSE IF Len(value_str) >= 2 /\ Head(value_str) = "'" /\ value_str[Len(value_str)] = "'"
    THEN JStr(SubSeq(value_str, 2, Len(value_str) - 1))
    ELSE JStr(value_str)

\* ParseJsonValue, once value_str is known
ParseJsonValue_value_str(value_str) ==
    ParseJsonValue_parsed(value_str, JsonLoads(value_str))

\* parse_json_value; None is JSON null
ParseJsonValue(value_str0) ==
    ParseJsonValue_value_str(RstripCh(LstripCh(value_str0, {" ", "\t", "\n"}), {" ", "\t", "\n"}))

\* the bracket depth before position idx
RECURSIVE DepthAt(_, _)
DepthAt(pattern, idx) ==
    IF idx = 0 THEN 0
    ELSE DepthAt(pattern, idx - 1)
         + (IF At(pattern, idx - 1) = "[" THEN 1 ELSE IF At(pattern, idx - 1) = "]" THEN -1 ELSE 0)

\* the first position where op is found outside brackets, or -1
OpPosition(pattern, op) ==
    LET hits == {idx \in 0..(Len(pattern) - 1) :
                    /\ At(pattern, idx) \notin {"[", "]"}
                    /\ DepthAt(pattern, idx) = 0
                    /\ StartsWith(Drop(pattern, idx), op)}
    IN  IF hits = {} THEN -1 ELSE CHOOSE j \in hits : \A m \in hits : j <= m

Operators == << <<"!", "=">>, <<">", "=">>, <<"<", "=">>, <<"~">>, <<"=">>, <<">">>, <<"<">> >>

\* ParseJsonpathFilter_k, once idx is known
ParseJsonpathFilter_idx(pattern, k, idx) ==
    [path |-> Take(pattern, idx), op |-> Operators[k],
     value |-> ParseJsonValue(Drop(pattern, idx + Len(Operators[k])))]

\* ParseJsonpathFilter, once k is known
ParseJsonpathFilter_k(pattern, k) ==
    ParseJsonpathFilter_idx(pattern, k, OpPosition(pattern, Operators[k]))

\* ParseJsonpathFilter, once found is known
ParseJsonpathFilter_found(pattern, found) ==
    IF found = {} THEN [path |-> pattern, op |-> <<>>, value |-> JNull]
    ELSE ParseJsonpathFilter_k(pattern, CHOOSE q \in found : \A m \in found : q <= m)

\* parse_jsonpath_filter: [path, op, value]; op is <<>> without a filter
ParseJsonpathFilter(pattern) ==
    ParseJsonpathFilter_found(pattern,
                              {k \in 1..Len(Operators) : OpPosition(pattern, Operators[k]) # -1})

IsNumber(val) == val.t \in {"num", "bool"}

NumOf(val) == IF val.t = "bool" THEN (IF val.v THEN 1 ELSE 0) ELSE val.v

\* Python's == on decoded JSON values (True == 1, dicts compare without order)
RECURSIVE PyEq(_, _)
PyEq(a, b) ==
    IF IsNumber(a) /\ IsNumber(b) THEN NumOf(a) = NumOf(b)
    ELSE IF a.t # b.t THEN FALSE
    ELSE IF a.t = "null" THEN TRUE
    ELSE IF a.t = "str" THEN a.v = b.v
    ELSE IF a.t = "arr"
    THEN Len(a.v) = Len(b.v) /\ \A j \in 1..Len(a.v) : PyEq(a.v[j], b.v[j])
    ELSE /\ Len(a.v) = Len(b.v)
         /\ \A j \in 1..Len(a.v) :
                DictHas(b.v, a.v[j][1]) /\ PyEq(a.v[j][2], DictGet(b.v, a.v[j][1]))

\* jsonpath_value_matches; the ordering of two strings and the regex filter
\* are outside the inputs of the model
JsonpathValueMatches(actual, op, expected) ==
    IF op = <<"=">> THEN PyEq(actual, expected)
    ELSE IF op = <<"!", "=">> THEN ~PyEq(actual, expected)
    ELSE IF ~(IsNumber(actual) /\ IsNumber(expected)) THEN FALSE
    ELSE IF op = <<">">> THEN NumOf(actual) > NumOf(expected)
    ELSE IF op = <<"<">> THEN NumOf(actual) < NumOf(expected)
    ELSE IF op = <<">", "=">> THEN NumOf(actual) >= NumOf(expected)
    ELSE IF op = <<"<", "=">> THEN NumOf(actual) <= NumOf(expected)
    ELSE FALSE

\* get_value_at_path
RECURSIVE GetValueAtPath(_, _)
GetValueAtPath(data, path) ==
    IF path = <<>> THEN data
    ELSE LET key == Head(path)
         IN  IF data.t = "obj" /\ key.k = "key" /\ DictHas(data.v, key.s)
             THEN GetValueAtPath(DictGet(data.v, key.s), Tail(path))
             ELSE IF data.t = "arr" /\ key.k = "idx"
             THEN IF 0 <= key.i /\ key.i < Len(data.v)
                  THEN GetValueAtPath(data.v[key.i + 1], Tail(path))
                  ELSE JNull
             ELSE JNull

----------------------------------------------------------------------------
(* The regular expressions of the model.  A pattern is taken literally     *)
(* when it holds no metacharacter; re.compile rejects an opening           *)
(* parenthesis that is never closed.  Every pattern the actions supply is  *)
(* of one of these two kinds (Modelled).                                   *)

MetaChars == {".", "^", "$", "*", "+", "?", "{", "}", "[", "]", "\\", "|", "(", ")"}

RegexLiteral(pat) == \A j \in 1..Len(pat) : pat[j] \notin MetaChars

\* re.compile raises re.error
RegexRejected(pat) ==
    /\ \E j \in 1..Len(pat) : pat[j] = "("
    /\ \A j \in 1..Len(pat) : pat[j] # ")" /\ pat[j] # "\\" /\ pat[j] # "["

Modelled(pat) == RegexLiteral(pat) \/ RegexRejected(pat)

UpperCase == <<"A", "G", "I", "J", "M", "N", "O", "P", "R", "V">>

LowerCase == <<"a", "g", "i", "j", "m", "n", "o", "p", "r", "v">>

\* str.lower() of one character
Lower(c) ==
    IF \E j \in 1..Len(UpperCase) : UpperCase[j] = c
    THEN LowerCase[CHOOSE j \in 1..Len(UpperCase) : UpperCase[j] = c]
    ELSE c

IsLetter(c) == c \in {"a", "b", "c", "d", "e", "f", "g", "h", "i", "j", "k", "l", "m", "n",
                      "o", "p", "q", "r", "s", "t", "u", "v", "w", "x", "y", "z"}

IsUpper(c) == \E j \in 1..Len(UpperCase) : UpperCase[j] = c

\* str.islower()
IsLowerStr(str) ==
    /\ \E j \in 1..Len(str) : IsLetter(str[j])
    /\ \A j \in 1..Len(str) : ~IsUpper(str[j])

MatchesAt(line, pat, col, ignore_case) ==
    /\ col + Len(pat) <= Len(line)
    /\ \A j \in 1..Len(pat) :
           IF ignore_case THEN Lower(line[col + j]) = Lower(pat[j]) ELSE line[col + j] = pat[j]

RECURSIVE FindIter(_, _, _, _)

\* FindIter, once the starts of the matches from col on are known
FindIter_at(line, pat, ignore_case, at) ==
    IF at = {} THEN <<>>
    ELSE LET first == CHOOSE c \in at : \A k \in at : c <= k
         IN  <<first>> \o FindIter(line, pat, first + Max(1, Len(pat)), ignore_case)

\* regex.finditer(line): the starts of the non-overlapping matches from col on
FindIter(line, pat, col, ignore_case) ==
    FindIter_at(line, pat, ignore_case,
                {c \in col..Len(line) : MatchesAt(line, pat, c, ignore_case)})

\* the replacement template makes re.sub raise re.error: a reference to a
\* group the pattern does not have, or a backslash at the end
TemplateRejected(repl) ==
    \E j \in 1..Len(repl) :
        /\ repl[j] = "\\"
        /\ (IF j = 1 THEN TRUE ELSE repl[j - 1] # "\\")
        /\ (IF j = Len(repl) THEN TRUE
            ELSE repl[j + 1] \in {"1", "2", "3", "4", "5", "6", "7", "8", "9"})

TemplateLiteral(repl) == \A j \in 1..Len(repl) : repl[j] # "\\"

\* the text of line with the matches at starts replaced by repl
RECURSIVE ReplaceAt(_, _, _, _, _)
ReplaceAt(line, starts, pat_len, repl, from) ==
    IF starts = <<>> THEN Drop(line, from)
    ELSE Slice(line, from, Head(starts)) \o repl
         \o ReplaceAt(line, Tail(starts), pat_len, repl, Head(starts) + pat_len)

\* Subn, once starts is known
Subn_starts(line, pat, repl, starts) ==
    [text |-> ReplaceAt(line, starts, Len(pat), repl, 0), n |-> Len(starts)]

\* regex.subn(repl, line, count): [text, n]; count = 0 replaces every match
Subn(line, pat, repl, ignore_case, count) ==
    LET all == FindIter(line, pat, 0, ignore_case)
    IN  Subn_starts(line, pat, repl, IF count > 0 THEN Take(all, count) ELSE all)

----------------------------------------------------------------------------
(* Positions of JSON values in the text (_search.py). *)

\* the closing quote of the string opened before end_pos, or len(line)
ClosingQuote(line, end_pos) ==
    LET hits == {j \in end_pos..(Len(line) - 1) : At(line, j) = "\"" /\ At(line, j - 1) # "\\"}
    IN  IF hits = {} THEN Len(line) ELSE CHOOSE j \in hits : \A m \in hits : j <= m

RECURSIVE SkipBlanks(_, _, _)
SkipBlanks(line, col, chs) ==
    IF col < Len(line) /\ At(line, col) \in chs THEN SkipBlanks(line, col + 1, chs) ELSE col

RECURSIVE LineKeys(_, _)

\* LineKeys_quote_pos, once end_pos is known
LineKeys_end_pos(line, quote_pos, end_pos) ==
    LET after == SkipBlanks(line, end_pos + 1, {" ", "\t"})
    IN  IF quote_pos = -1 \/ end_pos >= Len(line) THEN <<>>
        ELSE (IF after < Len(line) /\ At(line, after) = ":"
              THEN << <<quote_pos, Slice(line, quote_pos, end_pos + 1)>> >> ELSE <<>>)
             \o LineKeys(line, end_pos + 1)

\* LineKeys, once quote_pos is known
LineKeys_quote_pos(line, quote_pos) ==
    LineKeys_end_pos(line, quote_pos, ClosingQuote(line, quote_pos + 1))

\* the keys of one line: <<quote_pos, key text with its quotes>>
LineKeys(line, col) ==
    IF col >= Len(line) THEN <<>>
    ELSE LineKeys_quote_pos(line, Find(line, "\"", col))

RECURSIVE KeyPositions(_, _, _)

\* KeyPositions, once ks is known
KeyPositions_ks(ls, row, key_pattern, ks) ==
    [j \in 1..Len(ks) |-> <<row, ks[j][1]>>] \o KeyPositions(ls, row + 1, key_pattern)

\* _build_key_index()[key_pattern]: the <<row, col>> of the key, in text order
KeyPositions(ls, row, key_pattern) ==
    IF row >= Len(ls) THEN <<>>
    ELSE KeyPositions_ks(ls, row, key_pattern,
                         SelectSeq(LineKeys(At(ls, row), 0), LAMBDA q : q[2] = key_pattern))

\* FindValueEnd, once q is known
FindValueEnd_q(line, q) ==
    IF q = Len(line) THEN q ELSE q + 1

\* _find_value_end
FindValueEnd(line, start) ==
    IF start >= Len(line) THEN start
    ELSE LET ch == At(line, start)
         IN  IF ch = "\"" THEN (FindValueEnd_q(line, ClosingQuote(line, start + 1)))
             ELSE IF ch = "-" \/ IsDigit(ch)
             THEN SkipBlanks(line, start + 1,
                      {"0", "1", "2", "3", "4", "5", "6", "7", "8", "9", ".", "e", "E", "+", "-"})
             ELSE IF Slice(line, start, start + 4) = <<"t", "r", "u", "e">> THEN start + 4
             ELSE IF Slice(line, start, start + 5) = <<"f", "a", "l", "s", "e">> THEN start + 5
             ELSE IF Slice(line, start, start + 4) = <<"n", "u", "l", "l">> THEN start + 4
             ELSE start

\* the walk along path of _find_json_value_position_fast: [ok, v]
RECURSIVE WalkPath(_, _)
WalkPath(data, path) ==
    IF path = <<>> THEN [ok |-> TRUE, v |-> data]
    ELSE LET key == Head(path)
         IN  IF data.t = "obj"
             THEN IF key.k = "key" /\ DictHas(data.v, key.s)
                  THEN WalkPath(DictGet(data.v, key.s), Tail(path))
                  ELSE [ok |-> FALSE, v |-> JNull]
             ELSE IF data.t = "arr" /\ key.k = "idx" /\ 0 <= key.i /\ key.i < Len(data.v)
             THEN WalkPath(data.v[key.i + 1], Tail(path))
             ELSE [ok |-> FALSE, v |-> JNull]

\* PositionAtKey_value_start, once value_end is known
PositionAtKey_value_end(key_pattern, current, return_key, row, col, line, value_start, target_str, value_end) ==
    IF return_key \/ IsComplex(current) THEN <<row, col, col + Len(key_pattern)>>
    ELSE IF StartsWith(Drop(line, value_start), target_str)
    THEN <<row, value_start, value_start + Len(target_str)>>
    ELSE IF value_end > value_start THEN <<row, value_start, value_end>>
    ELSE None3

\* PositionAtKey, once value_start, target_str are known
PositionAtKey_value_start(key_pattern, current, return_key, row, col, line, value_start, target_str) ==
    PositionAtKey_value_end(key_pattern, current, return_key, row, col, line, value_start,
                            target_str, FindValueEnd(line, value_start))

\* the position a key occurrence yields, or None3 when the loop goes on
PositionAtKey(ls, pos, key_pattern, current, return_key) ==
    LET row == pos[1]
        col == pos[2]
        line == At(ls, row)
    IN  PositionAtKey_value_start(key_pattern, current, return_key, row, col, line,
                                  SkipBlanks(line, col + Len(key_pattern), {":", " ", "\t"}),
                                  Dumps(current))

\* str.find(sub, from)
FindSub(str, sub, from) ==
    LET hits == {j \in from..Len(str) : StartsWith(Drop(str, j), sub)}
    IN  IF hits = {} THEN -1 ELSE CHOOSE j \in hits : \A m \in hits : j <= m

\* FindJsonValuePositionFast_positions, once yields is known
FindJsonValuePositionFast_yields(ls, return_key, w, key_pattern, positions, yields) ==
    IF yields = {} THEN None3
    ELSE PositionAtKey(ls,
             positions[CHOOSE j \in yields : \A m \in yields : j <= m],
             key_pattern, w.v, return_key)

\* FindJsonValuePositionFast, once positions is known
FindJsonValuePositionFast_positions(ls, start_line, min_col, return_key, w, key_pattern, positions) ==
    FindJsonValuePositionFast_yields(ls, return_key, w, key_pattern, positions,
                                     {j \in 1..Len(positions) :
                               /\ \/ positions[j][1] > start_line
                                  \/ positions[j][1] = start_line /\ positions[j][2] >= min_col
                               /\ PositionAtKey(ls, positions[j], key_pattern, w.v,
                                                return_key) # None3})

\* FindJsonValuePositionFast, once row is known
FindJsonValuePositionFast_row(ls, start_line, min_col, target_str, row) ==
    LET pos == FindSub(At(ls, row), target_str,
                       IF row = start_line THEN min_col ELSE 0)
    IN  <<row, pos, pos + Len(target_str)>>

\* FindJsonValuePositionFast_target_str, once rows is known
FindJsonValuePositionFast_rows(ls, start_line, min_col, target_str, rows) ==
    IF rows = {} THEN None3
    ELSE FindJsonValuePositionFast_row(ls, start_line, min_col,
                                       target_str,
                                       CHOOSE r \in rows : \A m \in rows : r <= m)

\* FindJsonValuePositionFast, once target_str is known
FindJsonValuePositionFast_target_str(ls, start_line, min_col, target_str) ==
    FindJsonValuePositionFast_rows(ls, start_line, min_col, target_str,
                                   {row \in start_line..(Len(ls) - 1) :
                               FindSub(At(ls, row), target_str,
                                       IF row = start_line THEN min_col ELSE 0) >= 0})

\* FindJsonValuePositionFast, once w is known
FindJsonValuePositionFast_w(ls, path, start_line, min_col, return_key, w) ==
    IF ~w.ok \/ path = <<>> THEN None3
    ELSE LET last_key == path[Len(path)]
         IN  IF last_key.k = "key"
             THEN LET key_pattern == DumpsStr(last_key.s)
                  IN  FindJsonValuePositionFast_positions(ls, start_line, min_col,
                                                          return_key, w, key_pattern,
                                                          KeyPositions(ls, 0, key_pattern))
             ELSE IF IsComplex(w.v) THEN None3
             ELSE FindJsonValuePositionFast_target_str(ls, start_line, min_col,
                                                       Dumps(w.v))

\* _find_json_value_position_fast
FindJsonValuePositionFast(ls, data, path, start_line, min_col, return_key) ==
    FindJsonValuePositionFast_w(ls, path, start_line, min_col, return_key,
                                WalkPath(data, path))

----------------------------------------------------------------------------
(* Search (_search.py). *)

EndsWith(str, suffix) ==
    Len(str) >= Len(suffix) /\ SubSeq(str, Len(str) - Len(suffix) + 1, Len(str)) = suffix

IsJsonpathPattern(pattern) ==
    StartsWith(pattern, <<"$", ".">>) \/ StartsWith(pattern, <<"$", "[">>)

\* _find_match_near_cursor
FindMatchNearCursor(e) ==
    LET ms == e.search_matches
        ahead == {j \in 1..Len(ms) : PairLeq(e.cursor_row, e.cursor_col, ms[j][1], ms[j][2])}
        behind == {j \in 1..Len(ms) : PairLeq(ms[j][1], ms[j][2], e.cursor_row, e.cursor_col)}
    IN  IF ms = <<>> THEN -1
        ELSE IF e.search_forward
        THEN (IF ahead = {} THEN 0 ELSE (CHOOSE j \in ahead : \A m \in ahead : j <= m) - 1)
        ELSE (IF behind = {} THEN Len(ms) - 1
              ELSE (CHOOSE j \in behind : \A m \in behind : j >= m) - 1)

\* _goto_current_match
GotoCurrentMatch(e) ==
    IF e.search_matches = <<>> \/ e.current_match < 0 THEN e
    ELSE LET m == At(e.search_matches, e.current_match)
         IN  ScrollCursorToCenter(
                 [e EXCEPT !.folds = UnfoldForLine(e.folds, m[1]),
                           !.cursor_row = m[1], !.cursor_col = m[2],
                           !.status_msg = MsgN("/pattern [i/total]", e.current_match + 1)])

RECURSIVE AllMatches(_, _, _, _)

\* AllMatches, once starts is known
AllMatches_starts(ls, row, pat, ignore_case, starts) ==
    [j \in 1..Len(starts) |-> <<row, starts[j], starts[j] + Len(pat)>>]
    \o AllMatches(ls, row + 1, pat, ignore_case)

\* the matches of a literal pattern on every line, in text order
AllMatches(ls, row, pat, ignore_case) ==
    IF row >= Len(ls) THEN <<>>
    ELSE AllMatches_starts(ls, row, pat, ignore_case,
                           FindIter(At(ls, row), pat, 0, ignore_case))

RECURSIVE PositionsOf(_, _, _)

\* PositionsOf, once pos is known
PositionsOf_pos(ls, data, paths, pos) ==
    (IF pos # None3 THEN <<pos>> ELSE <<>>) \o PositionsOf(ls, data, Tail(paths))

\* the positions found for the paths, in order, the missing ones dropped
PositionsOf(ls, data, paths) ==
    IF paths = <<>> THEN <<>>
    ELSE PositionsOf_pos(ls, data, paths,
                         FindJsonValuePositionFast(ls, data, Head(paths), 0, 0, FALSE))

\* ExecuteJsonpathSearch, once e1 is known
ExecuteJsonpathSearch_e1(e1) ==
    GotoCurrentMatch([e1 EXCEPT !.current_match = FindMatchNearCursor(e1)])

\* ExecuteJsonpathSearch_results, once ms is known
ExecuteJsonpathSearch_ms(e, parsed, found, results, ms) ==
    IF ~parsed.ok THEN [e EXCEPT !.status_msg = Msg("Invalid JSON")]
    ELSE IF found.err THEN [e EXCEPT !.status_msg = Msg("Invalid JSONPath")]
    ELSE IF results = <<>>
    THEN [e EXCEPT !.status_msg = Msg("JSONPath not found"), !.search_matches = <<>>,
                   !.current_match = -1]
    ELSE IF ms = <<>>
    THEN [e EXCEPT !.search_matches = <<>>, !.current_match = -1,
                   !.status_msg = Msg("JSONPath matched but positions not found")]
    ELSE ExecuteJsonpathSearch_e1([e EXCEPT !.search_matches = ms])

\* ExecuteJsonpathSearch_found, once results is known
ExecuteJsonpathSearch_results(e, parsed, found, results) ==
    ExecuteJsonpathSearch_ms(e, parsed, found, results,
                             PositionsOf(e.lines, parsed.v, results))

\* ExecuteJsonpathSearch_f, once found is known
ExecuteJsonpathSearch_found(e, f, parsed, found) ==
    ExecuteJsonpathSearch_results(e, parsed, found,
                                  IF f.op # <<>>
                                  THEN SelectSeq(found.paths, LAMBDA q :
                                           JsonpathValueMatches(GetValueAtPath(parsed.v, q), f.op, f.value))
                                  ELSE found.paths)

\* ExecuteJsonpathSearch, once f, parsed are known
ExecuteJsonpathSearch_f(e, f, parsed) ==
    ExecuteJsonpathSearch_found(e, f, parsed, JsonpathFind(parsed.v, f.path))

\* _execute_jsonpath_search
ExecuteJsonpathSearch(e, path) ==
    ExecuteJsonpathSearch_f(e, ParseJsonpathFilter(path), JsonLoads(GetContent(e)))

\* ExecuteSearch, once e1 is known
ExecuteSearch_e1(e1) ==
    GotoCurrentMatch([e1 EXCEPT !.current_match = FindMatchNearCursor(e1)])

\* ExecuteSearch, once ms is known
ExecuteSearch_ms(pattern, e0, cut, pat, ms) ==
    IF EndsWith(pattern, <<"\\", "j">>) THEN ExecuteJsonpathSearch(e0, cut)
    ELSE IF IsJsonpathPattern(pattern) THEN ExecuteJsonpathSearch(e0, pattern)
    ELSE IF RegexRejected(pat)
    THEN [e0 EXCEPT !.search_matches = <<>>, !.current_match = -1,
                    !.status_msg = Msg("Invalid pattern")]
    ELSE IF ms = <<>>
    THEN [e0 EXCEPT !.search_matches = <<>>, !.current_match = -1,
                    !.status_msg = Msg("Pattern not found")]
    ELSE ExecuteSearch_e1([e0 EXCEPT !.search_matches = ms])

\* _execute_search
ExecuteSearch(e) ==
    LET pattern == e.search_buffer
        e0 == [e EXCEPT !.search_pattern = pattern]
        cut == Take(pattern, Len(pattern) - 2)
        pat == IF EndsWith(pattern, <<"\\", "c">>) \/ EndsWith(pattern, <<"\\", "C">>)
               THEN cut ELSE pattern
        ignore_case == \/ EndsWith(pattern, <<"\\", "c">>)
                       \/ ~EndsWith(pattern, <<"\\", "C">>) /\ IsLowerStr(pattern)
    IN  ExecuteSearch_ms(pattern, e0, cut, pat, AllMatches(e0.lines, 0, pat, ignore_case))

\* _goto_next_match
GotoNextMatch(e) ==
    IF e.search_matches = <<>>
    THEN [e EXCEPT !.status_msg = IF e.search_pattern # <<>> THEN Msg("Pattern not found")
                                  ELSE Msg("No previous search")]
    ELSE LET e1 == [e EXCEPT !.cursor_col = e.cursor_col + 1]
         IN  GotoCurrentMatch([e1 EXCEPT !.current_match = FindMatchNearCursor(e1)])

\* GotoPrevMatch, once behind is known
GotoPrevMatch_behind(e, row, col, ms, behind) ==
    LET found == IF behind = {} THEN Len(ms) - 1
                 ELSE (CHOOSE j \in behind : \A m \in behind : j >= m) - 1
    IN  GotoCurrentMatch([e EXCEPT !.cursor_row = row, !.cursor_col = col,
                                   !.current_match = found])

\* _goto_prev_match
GotoPrevMatch(e) ==
    IF e.search_matches = <<>>
    THEN [e EXCEPT !.status_msg = IF e.search_pattern # <<>> THEN Msg("Pattern not found")
                                  ELSE Msg("No previous search")]
    ELSE LET wrap == e.cursor_col - 1 < 0
             row == IF ~wrap THEN e.cursor_row
                    ELSE IF e.cursor_row - 1 < 0 THEN Len(e.lines) - 1 ELSE e.cursor_row - 1
             col == IF wrap THEN Len(At(e.lines, row)) ELSE e.cursor_col - 1
             ms == e.search_matches
         IN  GotoPrevMatch_behind(e, row, col, ms,
                                  {j \in 1..Len(ms) : PairLeq(ms[j][1], ms[j][2], row, col)})

\* _handle_search; the search history is not part of the model
HandleSearch(e, ev) ==
    IF ev.key = "escape"
    THEN [e EXCEPT !.mode = "NORMAL", !.search_buffer = <<>>, !.status_msg = Msg("")]
    ELSE IF ev.key = "enter"
    THEN LET e1 == IF e.search_buffer # <<>> THEN ExecuteSearch(e) ELSE e
         IN  [e1 EXCEPT !.mode = "NORMAL"]
    ELSE IF ev.key = "backspace"
    THEN IF e.search_buffer # <<>>
         THEN [e EXCEPT !.search_buffer = SubSeq(e.search_buffer, 1, Len(e.search_buffer) - 1)]
         ELSE [e EXCEPT !.mode = "NORMAL"]
    ELSE IF ev.char # "" THEN [e EXCEPT !.search_buffer = Append(e.search_buffer, ev.char)]
    ELSE e

----------------------------------------------------------------------------
(* Substitute (_substitute.py). *)

\* SubMatch_d1, once at is known
SubMatch_at(cmd, d1, d2, ranged, at) ==
    [ok |-> at + 1 < Len(cmd) /\ At(cmd, at) = "s" /\ At(cmd, at + 1) # "\n",
     range_spec |-> IF at = 0 THEN "" ELSE IF ranged THEN "range" ELSE "%",
     start_s |-> IF ranged THEN Take(cmd, d1) ELSE <<>>,
     end_s |-> IF ranged THEN Slice(cmd, d1 + 1, d2) ELSE <<>>,
     at |-> at]

\* SubMatch, once d1 is known
SubMatch_d1(cmd, d1) ==
    LET d2 == DigitRun(cmd, d1 + 1)
        ranged == /\ d1 > 0 /\ d1 < Len(cmd) /\ At(cmd, d1) = ","
                  /\ d2 > d1 + 1
    IN  SubMatch_at(cmd, d1, d2, ranged,
                    IF cmd # <<>> /\ Head(cmd) = "%" THEN 1 ELSE IF ranged THEN d2 ELSE 0)

\* re.match(r"^(%|(\d+),(\d+))?s(.)(.*)$", cmd): [ok, range_spec, start_s, end_s, at];
\* at is the position of the s
SubMatch(cmd) ==
    SubMatch_d1(cmd, DigitRun(cmd, 0))

\* the split of rest at the unescaped delimiters
RECURSIVE SplitParts(_, _, _, _)
SplitParts(rest, i, delim, current) ==
    IF i >= Len(rest) THEN <<current>>
    ELSE IF At(rest, i) = "\\" /\ i + 1 < Len(rest) /\ At(rest, i + 1) = delim
    THEN SplitParts(rest, i + 2, delim, Append(current, delim))
    ELSE IF At(rest, i) = delim
    THEN <<current>> \o SplitParts(rest, i + 1, delim, <<>>)
    ELSE SplitParts(rest, i + 1, delim, Append(current, At(rest, i)))

Contains(str, ch) == \E j \in 1..Len(str) : str[j] = ch

\* FloatAccepts_unsigned, once dot is known
FloatAccepts_dot(unsigned, dot) ==
    LET int_part == IF dot = -1 THEN unsigned ELSE Take(unsigned, dot)
        frac_part == IF dot = -1 THEN <<>> ELSE Drop(unsigned, dot + 1)
    IN  \/ unsigned \in {<<"i", "n", "f">>, <<"n", "a", "n">>}
        \/ /\ int_part \o frac_part # <<>>
           /\ \A j \in 1..Len(int_part) : IsDigit(int_part[j])
           /\ \A j \in 1..Len(frac_part) : IsDigit(frac_part[j])

\* FloatAccepts, once unsigned is known
FloatAccepts_unsigned(unsigned) ==
    FloatAccepts_dot(unsigned, Find(unsigned, ".", 0))

\* float(value) succeeds
FloatAccepts(value0) ==
    LET value == RstripCh(LstripCh(value0, {" ", "\t", "\n"}), {" ", "\t", "\n"})
    IN  FloatAccepts_unsigned(IF value # <<>> /\ Head(value) \in {"+", "-"} THEN Tail(value) ELSE value)

\* _json_encode_replacement
JsonEncodeReplacement(value) ==
    IF value \in {<<"t", "r", "u", "e">>, <<"f", "a", "l", "s", "e">>, <<"n", "u", "l", "l">>}
    THEN value
    ELSE IF FloatAccepts(value) THEN value
    ELSE IF Len(value) >= 2 /\ Head(value) = "\"" /\ value[Len(value)] = "\"" THEN value
    ELSE DumpsStr(value)

\* the position of json_path not yet in used (the while loop over pos)
RECURSIVE UnusedPosition(_, _, _, _, _, _)
UnusedPosition(ls, data, json_path, pos, used, return_key) ==
    IF pos # None3 /\ <<pos[1], pos[2]>> \in used
    THEN UnusedPosition(ls, data, json_path,
             FindJsonValuePositionFast(ls, data, json_path, pos[1], pos[2] + 1, return_key),
             used, return_key)
    ELSE pos

RECURSIVE CollectPositions(_, _, _, _, _)

\* CollectPositions, once pos is known
CollectPositions_pos(ls, data, paths, positions, return_key, pos) ==
    CollectPositions(ls, data, Tail(paths),
        IF pos # None3 THEN Append(positions, pos) ELSE positions, return_key)

\* the positions collected for the paths, each text position at most once
CollectPositions(ls, data, paths, positions, return_key) ==
    IF paths = <<>> THEN positions
    ELSE LET used == {<<positions[j][1], positions[j][2]>> : j \in 1..Len(positions)}
         IN  CollectPositions_pos(ls, data, paths, positions, return_key,
                                  UnusedPosition(ls, data, Head(paths),
                                      FindJsonValuePositionFast(ls, data, Head(paths), 0, 0, return_key),
                                      used, return_key))

\* positions.sort(key=(row, col), reverse=True)
RECURSIVE SortReverse(_)
SortReverse(positions) ==
    IF positions = <<>> THEN <<>>
    ELSE LET top == CHOOSE j \in 1..Len(positions) : \A m \in 1..Len(positions) :
                        PairLeq(positions[m][1], positions[m][2],
                                positions[j][1], positions[j][2])
         IN  <<positions[top]>>
             \o SortReverse(SubSeq(positions, 1, top - 1) \o SubSeq(positions, top + 1, Len(positions)))

RECURSIVE ReplacePositions(_, _, _)
ReplacePositions(ls, positions, encoded) ==
    IF positions = <<>> THEN ls
    ELSE LET pos == Head(positions)
             line == At(ls, pos[1])
         IN  ReplacePositions(
                 SetAt(ls, pos[1], Take(line, pos[2]) \o encoded \o Drop(line, pos[3])),
                 Tail(positions), encoded)

\* ExecuteSubstituteJsonpath_all_results, once positions, encoded are known
ExecuteSubstituteJsonpath_positions(e, key_rename, parsed, found, results, all_results, positions, encoded) ==
    IF ~parsed.ok THEN [e EXCEPT !.status_msg = Msg("Invalid JSON")]
    ELSE IF found.err THEN [e EXCEPT !.status_msg = Msg("Invalid JSONPath")]
    ELSE IF results = <<>> THEN [e EXCEPT !.status_msg = Msg("JSONPath not found")]
    ELSE IF all_results = <<>>
    THEN [e EXCEPT !.status_msg =
             IF key_rename THEN Msg("No renamable keys found")
             ELSE Msg("JSONPath matches only objects/arrays (not substitutable)")]
    ELSE IF positions = <<>>
    THEN [e EXCEPT !.status_msg =
             IF key_rename THEN Msg("JSONPath matched but key positions not found")
             ELSE Msg("JSONPath matched but positions not found")]
    ELSE [SaveUndo(e) EXCEPT
             !.lines = ReplacePositions(e.lines, SortReverse(positions), encoded),
             !.status_msg = MsgN("substitution(s)", Len(positions))]

\* ExecuteSubstituteJsonpath_results, once all_results is known
ExecuteSubstituteJsonpath_all_results(e, replacement, global_flag, key_rename, parsed, data, found, results, all_results) ==
    LET chosen == IF global_flag THEN all_results ELSE Take(all_results, 1)
    IN  ExecuteSubstituteJsonpath_positions(e, key_rename, parsed, found, results,
                                            all_results,
                                            CollectPositions(e.lines, data, chosen, <<>>, key_rename),
                                            IF key_rename THEN DumpsStr(replacement)
                                            ELSE JsonEncodeReplacement(replacement))

\* ExecuteSubstituteJsonpath_found, once results is known
ExecuteSubstituteJsonpath_results(e, replacement, global_flag, key_rename, parsed, data, found, results) ==
    ExecuteSubstituteJsonpath_all_results(e, replacement, global_flag, key_rename, parsed,
                                          data, found, results,
                                          IF key_rename
                                          THEN SelectSeq(results, LAMBDA q : q # <<>> /\ q[Len(q)].k = "key")
                                          ELSE SelectSeq(results, LAMBDA q : ~IsComplex(GetValueAtPath(data, q))))

\* ExecuteSubstituteJsonpath_parsed, once found is known
ExecuteSubstituteJsonpath_found(e, replacement, global_flag, f, key_rename, unconditional_value, parsed, data, found) ==
    ExecuteSubstituteJsonpath_results(e, replacement, global_flag, key_rename, parsed, data,
                                      found,
                                      IF f.op # <<>> /\ ~unconditional_value
                                      THEN SelectSeq(found.paths, LAMBDA q :
                                               JsonpathValueMatches(GetValueAtPath(data, q), f.op, f.value))
                                      ELSE found.paths)

\* ExecuteSubstituteJsonpath_f, once parsed is known
ExecuteSubstituteJsonpath_parsed(e, replacement, global_flag, f, key_rename, unconditional_value, parsed) ==
    LET data == parsed.v
    IN  ExecuteSubstituteJsonpath_found(e, replacement, global_flag, f, key_rename,
                                        unconditional_value, parsed, data,
                                        JsonpathFind(data, f.path))

\* ExecuteSubstituteJsonpath, once f is known
ExecuteSubstituteJsonpath_f(e, replacement, global_flag, f) ==
    LET key_rename == f.op = <<>>
        unconditional_value == f.op = <<"=">> /\ f.value.t = "null"
    IN  ExecuteSubstituteJsonpath_parsed(e, replacement, global_flag, f, key_rename,
                                         unconditional_value, JsonLoads(GetContent(e)))

\* _execute_substitute_jsonpath
ExecuteSubstituteJsonpath(e, pattern, replacement, flags_str) ==
    LET global_flag == Contains(flags_str, "g")
    IN  ExecuteSubstituteJsonpath_f(e, replacement, global_flag, ParseJsonpathFilter(pattern))

RECURSIVE SubstituteRows(_, _, _, _, _)

\* SubstituteRows, once r is known
SubstituteRows_r(ls, row, end, args, total_count, r) ==
    SubstituteRows(IF r.n > 0 THEN SetAt(ls, row, r.text) ELSE ls,
                   row + 1, end, args, total_count + r.n)

\* the loop over the rows of the range: [lines, total_count]
SubstituteRows(ls, row, end, args, total_count) ==
    IF row > end THEN [lines |-> ls, total_count |-> total_count]
    ELSE SubstituteRows_r(ls, row, end, args, total_count,
                          Subn(At(ls, row), args.pattern, args.replacement, args.ignore_case,
                               IF args.global_flag THEN 0 ELSE 1))

\* a substitute that works on every row whatever its range
SubstituteRangeWhole(e, m) == <<0, Len(e.lines) - 1>>

\* the rows a regex substitute works on: <<start, end>>
SubstituteRange(e, m) ==
    IF m.range_spec = "%" THEN <<0, Len(e.lines) - 1>>
    ELSE IF m.range_spec = "range" /\ m.start_s # <<>> /\ m.end_s # <<>>
    THEN <<Max(0, AtoI(m.start_s) - 1), Min(Len(e.lines) - 1, AtoI(m.end_s) - 1)>>
    ELSE <<e.cursor_row, e.cursor_row>>

\* ExecuteSubstitute_rng, once done is known
ExecuteSubstitute_done(e, m, parts, pattern, replacement, flags_str, rng, e1, done) ==
    IF e.read_only THEN [e EXCEPT !.status_msg = Msg("[readonly]")]
    ELSE IF ~m.ok \/ Len(parts) < 2
    THEN [e EXCEPT !.status_msg = Msg("invalid substitute command")]
    ELSE IF pattern = <<>> THEN [e EXCEPT !.status_msg = Msg("empty pattern")]
    ELSE IF IsJsonpathPattern(pattern)
    THEN ExecuteSubstituteJsonpath(e, pattern, replacement, flags_str)
    ELSE IF RegexRejected(pattern) THEN [e EXCEPT !.status_msg = Msg("invalid regex")]
    ELSE IF rng[1] > rng[2] THEN [e EXCEPT !.status_msg = Msg("invalid range")]
    ELSE IF TemplateRejected(replacement) THEN Raise(e1)
    ELSE IF done.total_count = 0
    THEN [e1 EXCEPT !.undo_stack = SubSeq(e1.undo_stack, 1, Len(e1.undo_stack) - 1),
                    !.status_msg = Msg("Pattern not found")]
    ELSE [e1 EXCEPT !.lines = done.lines,
                    !.status_msg = MsgN("substitution(s)", done.total_count)]

\* ExecuteSubstitute_parts, once rng, e1 are known
ExecuteSubstitute_rng(e, m, parts, pattern, replacement, flags_str, rng, e1) ==
    ExecuteSubstitute_done(e, m, parts, pattern, replacement, flags_str, rng, e1,
                           SubstituteRows(e1.lines, rng[1], rng[2],
                               [pattern |-> pattern, replacement |-> replacement,
                                ignore_case |-> Contains(flags_str, "i"),
                                global_flag |-> Contains(flags_str, "g")], 0))

\* ExecuteSubstitute_m, once parts is known
ExecuteSubstitute_parts(e, m, parts) ==
    LET pattern == parts[1]
        replacement == parts[2]
        flags_str == IF Len(parts) > 2 THEN parts[3] ELSE <<>>
    IN  ExecuteSubstitute_rng(e, m, parts, pattern, replacement, flags_str,
                              SubstituteRange(e, m), SaveUndo(e))

\* ExecuteSubstitute, once m is known
ExecuteSubstitute_m(e, cmd, m) ==
    LET delim == At(cmd, m.at + 1)
    IN  ExecuteSubstitute_parts(e, m, SplitParts(Drop(cmd, m.at + 2), 0, delim, <<>>))

\* _execute_substitute
ExecuteSubstitute(e, cmd) ==
    ExecuteSubstitute_m(e, cmd, SubMatch(cmd))

----------------------------------------------------------------------------
(* Command mode (widget.py). *)

\* FormatJson, once parsed is known
FormatJson_parsed(e, parsed) ==
    IF parsed.ok
    THEN [SaveUndo(e) EXCEPT !.lines = DumpsIndent(parsed.v, 0), !.cursor_row = 0,
                             !.cursor_col = 0, !.folds = <<>>, !.collapsed_strings = {},
                             !.status_msg = Msg("formatted")]
    ELSE [e EXCEPT !.status_msg = Msg("cannot format")]

\* _format_json
FormatJson(e) ==
    FormatJson_parsed(e, JsonLoads(GetContent(e)))

\* cmd.split(None, 1): <<verb, arg>>
SplitVerb(cmd) ==
    LET body == LstripCh(cmd, {" ", "\t"})
        stops == {j \in 0..(Len(body) - 1) : At(body, j) \in {" ", "\t"}}
        end == IF stops = {} THEN Len(body) ELSE CHOOSE j \in stops : \A m \in stops : j <= m
    IN  <<Take(body, end), LstripCh(Drop(body, end), {" ", "\t"})>>

\* the jump of :$, :l<num>, :<num> and :p<num>
JumpToLine(e, row) ==
    ScrollCursorToTop([e EXCEPT !.cursor_row = row, !.cursor_col = 0])

\* ExecCommand_stripped, once valid is known
ExecCommand_valid(e, stripped, last, force, verb, arg, valid) ==
    IF stripped = <<"$">> THEN JumpToLine(e, last)
    ELSE IF Len(stripped) > 1 /\ Head(stripped) = "l" /\ IsDigits(Tail(stripped))
    THEN JumpToLine(e, Max(0, Min(AtoI(Tail(stripped)) - 1, last)))
    ELSE IF IsDigits(stripped)
    THEN JumpToLine(e, Max(0, Min(AtoI(stripped) - 1, last)))
    ELSE IF Len(stripped) > 1 /\ Head(stripped) = "p" /\ IsDigits(Tail(stripped))
    THEN JumpToLine(e, Max(0, Min(AtoI(Tail(stripped)) - 1, last)))
    ELSE IF SubMatch(stripped).ok THEN ExecuteSubstitute(e, stripped)
    ELSE IF verb = <<"w">>
    THEN IF e.read_only THEN [e EXCEPT !.status_msg = Msg("[readonly]")]
         ELSE IF ~force /\ ~valid THEN [e EXCEPT !.status_msg = Msg("JSON error")]
         ELSE e
    ELSE IF verb = <<"q">> THEN e
    ELSE IF verb \in {<<"w", "q">>, <<"x">>}
    THEN IF e.read_only THEN e
         ELSE IF ~force /\ ~valid THEN [e EXCEPT !.status_msg = Msg("JSON error")]
         ELSE e
    ELSE IF verb = <<"e">>
    THEN IF arg = <<>> THEN [e EXCEPT !.status_msg = Msg("Usage: :e <file>")] ELSE e
    ELSE IF verb \in {<<"f", "m", "t">>, <<"f", "o", "r", "m", "a", "t">>}
    THEN IF e.read_only THEN [e EXCEPT !.status_msg = Msg("[readonly]")]
         ELSE FormatJson(e)
    ELSE IF verb = <<"h", "e", "l", "p">> THEN e
    ELSE [e EXCEPT !.status_msg = Msg("unknown command")]

\* ExecCommand, once stripped, last, parts are known
ExecCommand_stripped(e, stripped, last, parts) ==
    LET force == EndsWith(parts[1], <<"!">>)
        verb == IF force THEN SubSeq(parts[1], 1, Len(parts[1]) - 1) ELSE parts[1]
        arg == parts[2]
    IN  ExecCommand_valid(e, stripped, last, force, verb, arg, JsonLoads(GetContent(e)).ok)

\* _exec_command; jsonl is off and the messages posted to the application
\* (save, quit, open, help) are not state of the widget
ExecCommand(e, cmd) ==
    ExecCommand_stripped(e, Strip(cmd), Len(e.lines) - 1, SplitVerb(cmd))

\* HandleCommand, once e1 is known
HandleCommand_e1(e1) ==
    IF e1.crashed THEN e1
    ELSE [e1 EXCEPT !.mode = IF e1.mode = "COMMAND" THEN "NORMAL" ELSE e1.mode,
                    !.command_buffer = <<>>]

\* _handle_command; the command history is not part of the model
HandleCommand(e, ev) ==
    IF ev.key = "escape"
    THEN [e EXCEPT !.mode = "NORMAL", !.command_buffer = <<>>, !.status_msg = Msg("")]
    ELSE IF ev.key = "enter"
    THEN HandleCommand_e1(ExecCommand(e, Strip(e.command_buffer)))
    ELSE IF ev.key = "backspace"
    THEN IF e.command_buffer # <<>>
         THEN [e EXCEPT !.command_buffer =
                            SubSeq(e.command_buffer, 1, Len(e.command_buffer) - 1)]
         ELSE [e EXCEPT !.mode = "NORMAL"]
    ELSE IF ev.char # "" THEN [e EXCEPT !.command_buffer = Append(e.command_buffer, ev.char)]
    ELSE e

----------------------------------------------------------------------------
(* Insert mode (widget.py). *)

\* HandleInsert, once indent, before, after are known
HandleInsert_indent(e, row, col, line, e1, indent, before, after) ==
    LET extra == IF EndsWithOpen(before) THEN Spaces(4) ELSE <<>>
    IN  IF EndsWithOpen(before) /\ after # <<>> /\ Head(after) \in {"}", "]"}
        THEN LET new_indent == Spaces(indent) \o Spaces(4)
                 ls == InsertAt(InsertAt(SetAt(e.lines, row, Take(line, col)),
                                         row + 1, new_indent),
                                row + 2, Spaces(indent) \o Lstrip(Drop(line, col)))
             IN  [AdjustLineIndices([e1 EXCEPT !.lines = ls], row + 1, 2)
                     EXCEPT !.cursor_row = row + 1, !.cursor_col = Len(new_indent)]
        ELSE LET new_line == Spaces(indent) \o extra \o Drop(line, col)
                 ls == InsertAt(SetAt(e.lines, row, Take(line, col)), row + 1, new_line)
             IN  [AdjustLineIndices([e1 EXCEPT !.lines = ls, !.cursor_row = row + 1],
                                    row + 1, 1)
                     EXCEPT !.cursor_col = indent + Len(extra)]

\* HandleInsert, once e1 is known
HandleInsert_e1(e, key, char, row, col, line, e1) ==
    IF key = "escape"
    THEN [DotStop(e) EXCEPT !.mode = "NORMAL", !.cursor_col = Max(0, col - 1),
                            !.status_msg = Msg("")]
    ELSE IF key = "backspace"
    THEN IF col > 0
         THEN [e1 EXCEPT !.lines = SetAt(e.lines, row, Take(line, col - 1) \o Drop(line, col)),
                         !.cursor_col = col - 1]
         ELSE IF row > 0
         THEN LET prev == At(e.lines, row - 1)
                  joined == RemoveAt(SetAt(e.lines, row - 1, prev \o line), row)
              IN  [AdjustLineIndices([e1 EXCEPT !.lines = joined, !.cursor_col = Len(prev)],
                                     row, -1)
                      EXCEPT !.cursor_row = row - 1]
         ELSE e1
    ELSE IF key = "enter"
    THEN HandleInsert_indent(e, row, col, line, e1,
                             IF Strip(line) # <<>> THEN LeadingSpaces(line) ELSE 0,
                             Rstrip(Take(line, col)), Lstrip(Drop(line, col)))
    ELSE IF key = "tab"
    THEN [e1 EXCEPT !.lines = SetAt(e.lines, row, Take(line, col) \o Spaces(4) \o Drop(line, col)),
                    !.cursor_col = col + 4]
    ELSE IF key = "end" THEN [e EXCEPT !.cursor_col = Len(line)]
    ELSE IF key = "home" THEN [e EXCEPT !.cursor_col = LeadingSpaces(line)]
    ELSE IF key = "left" THEN [e EXCEPT !.cursor_col = col - 1]
    ELSE IF key = "right" THEN [e EXCEPT !.cursor_col = col + 1]
    ELSE IF key = "up" THEN [e EXCEPT !.cursor_row = row - 1]
    ELSE IF key = "down" THEN [e EXCEPT !.cursor_row = row + 1]
    ELSE IF char \in {"}", "]"} /\ Strip(Take(line, col)) = <<>>
    THEN LET new_indent == Max(0, Len(Take(line, col)) - 4)
         IN  [e1 EXCEPT !.lines = SetAt(e.lines, row,
                                      Spaces(new_indent) \o <<char>> \o Drop(line, col)),
                        !.cursor_col = new_indent + 1]
    ELSE IF char # ""
    THEN LET e2 == IF char \in {"}", "]"} THEN SaveUndo(e1) ELSE e1
         IN  [e2 EXCEPT !.lines = SetAt(e.lines, row, Take(line, col) \o <<char>> \o Drop(line, col)),
                        !.cursor_col = col + 1]
    ELSE e

\* _handle_insert
HandleInsert(e, ev) ==
    LET key == ev.key
        char == ev.char
        row == e.cursor_row
        col == e.cursor_col
        line == CurLine(e)
    IN  HandleInsert_e1(e, key, char, row, col, line, SaveUndo(e))

----------------------------------------------------------------------------
(* Normal mode and the key dispatcher (widget.py). *)

\* the v and V keys
ToggleVisual(e, kind) ==
    IF e.visual_mode = kind
    THEN [e EXCEPT !.visual_mode = "", !.status_msg = Msg("")]
    ELSE [e EXCEPT !.visual_mode = kind, !.visual_anchor_row = e.cursor_row,
                   !.visual_anchor_col = e.cursor_col,
                   !.status_msg = IF kind = "v" THEN Msg("-- VISUAL --")
                                  ELSE Msg("-- VISUAL LINE --")]

\* the row reached by a page or half-page key
PageMove(e, count, direction) ==
    [e EXCEPT !.cursor_row = IF e.folds # <<>>
                             THEN SkipVisibleLines(e, e.cursor_row, count, direction)
                             ELSE e.cursor_row + direction * count]

\* an edit key that a read-only buffer refuses
Guarded(e, edited) ==
    IF e.read_only THEN [e EXCEPT !.status_msg = Msg("[readonly]")] ELSE edited

\* the keys i, I, a and A: the cursor moves first, read-only or not
InsertAtCol(e, ev, col) ==
    EnterInsert([(IF e.read_only THEN e ELSE DotStart(e, ev)) EXCEPT !.cursor_col = col])

\* the nested _dot_replay calls the interpreter's call stack holds
RecursionLimit == 3

RECURSIVE HandleNormal(_, _), DotReplay(_), DotReplayAt(_, _), ReplayKeys(_, _, _)
\* _handle_normal
HandleNormal(e, ev) ==
    LET key == ev.key
        char == ev.char
        row == e.cursor_row
        col == e.cursor_col
        line == CurLine(e)
        rec == DotStart(e, ev)
        one == DotStop(rec)
    IN  IF key = "escape" /\ e.visual_mode # ""
        THEN [e EXCEPT !.visual_mode = "", !.status_msg = Msg("")]
        ELSE IF e.pending # "" THEN HandlePending(e, char, key)
        ELSE IF char = "v" THEN ToggleVisual(e, "v")
        ELSE IF char = "V" THEN ToggleVisual(e, "V")
        ELSE IF char = "h" \/ key = "left" THEN [e EXCEPT !.cursor_col = col - 1]
        ELSE IF char = "j" \/ key = "down"
        THEN [e EXCEPT !.cursor_row = IF e.folds # <<>> THEN NextVisibleLine(e, row, 1)
                                      ELSE row + 1]
        ELSE IF char = "k" \/ key = "up"
        THEN [e EXCEPT !.cursor_row = IF e.folds # <<>> THEN NextVisibleLine(e, row, -1)
                                      ELSE row - 1]
        ELSE IF char = "l" \/ key = "right" THEN [e EXCEPT !.cursor_col = col + 1]
        ELSE IF char = "w" THEN MoveWordForward(e)
        ELSE IF char = "b" THEN MoveWordBackward(e)
        ELSE IF char = "0" THEN [e EXCEPT !.cursor_col = 0]
        ELSE IF char = "$" \/ key = "end" THEN [e EXCEPT !.cursor_col = Max(0, Len(line) - 1)]
        ELSE IF char = "^" \/ key = "home" THEN [e EXCEPT !.cursor_col = LeadingSpaces(line)]
        ELSE IF char = "G" THEN ScrollCursorToTop([e EXCEPT !.cursor_row = Len(e.lines) - 1])
        ELSE IF char = "%" THEN JumpMatchingBracket(e)
        ELSE IF key = "pagedown" \/ key = "ctrl+f" THEN PageMove(e, VisibleHeight, 1)
        ELSE IF key = "pageup" \/ key = "ctrl+b" THEN PageMove(e, VisibleHeight, -1)
        ELSE IF key = "ctrl+d" THEN PageMove(e, VisibleHeight \div 2, 1)
        ELSE IF key = "ctrl+u" THEN PageMove(e, VisibleHeight \div 2, -1)
        ELSE IF key = "ctrl+e"
        THEN [e EXCEPT !.scroll_top =
                 Min(IF e.folds # <<>> THEN NextVisibleLine(e, e.scroll_top, 1)
                     ELSE e.scroll_top + 1, Len(e.lines) - 1)]
        ELSE IF key = "ctrl+y"
        THEN [e EXCEPT !.scroll_top =
                 Max(IF e.folds # <<>> THEN NextVisibleLine(e, e.scroll_top, -1)
                     ELSE e.scroll_top - 1, 0)]
        ELSE IF key = "ctrl+g" THEN [e EXCEPT !.status_msg = MsgN("line of total", row + 1)]
        ELSE IF char = "i" THEN InsertAtCol(e, ev, col)
        ELSE IF char = "I" THEN InsertAtCol(e, ev, LeadingSpaces(line))
        ELSE IF char = "a" THEN InsertAtCol(e, ev, col + 1)
        ELSE IF char = "A" THEN InsertAtCol(e, ev, Len(line))
        ELSE IF char = "o"
        THEN LET indent == CurrentIndent(e)
                 extra == IF EndsWithOpen(Rstrip(line)) THEN Spaces(4) ELSE <<>>
                 e1 == [SaveUndo(rec) EXCEPT
                           !.cursor_row = row + 1,
                           !.lines = InsertAt(e.lines, row + 1, Spaces(indent) \o extra)]
             IN  Guarded(e, EnterInsert([AdjustLineIndices(e1, row + 1, 1)
                                            EXCEPT !.cursor_col = indent + Len(extra)]))
        ELSE IF char = "O"
        THEN LET indent == CurrentIndent(e)
                 e1 == [SaveUndo(rec) EXCEPT !.lines = InsertAt(e.lines, row, Spaces(indent))]
             IN  Guarded(e, EnterInsert([AdjustLineIndices(e1, row, 1)
                                            EXCEPT !.cursor_col = indent]))
        ELSE IF char = "x"
        THEN Guarded(e, [SaveUndo(one) EXCEPT !.lines =
                            IF line # <<>> /\ col < Len(line)
                            THEN SetAt(e.lines, row, Take(line, col) \o Drop(line, col + 1))
                            ELSE e.lines])
        ELSE IF char = "p" THEN Guarded(e, PasteAfter(one))
        ELSE IF char = "P" THEN Guarded(e, PasteBefore(one))
        ELSE IF char = "u" THEN Guarded(e, Undo(e))
        ELSE IF key = "ctrl+r" THEN Guarded(e, Redo(e))
        ELSE IF char = "J" THEN Guarded(e, JoinLines(one))
        ELSE IF char = "." THEN (IF e.read_only THEN e ELSE DotReplay(e))
        ELSE IF char \in {"d", "c", "y", "r", "g", "e", "z"}
        THEN IF e.visual_mode # "" /\ char \in {"d", "y", "c"}
             THEN ExecuteVisualOperator(e, char)
             ELSE IF e.read_only /\ char \notin {"y", "g", "e", "z"}
             THEN [e EXCEPT !.status_msg = Msg("[readonly]")]
             ELSE [(IF char \notin {"y", "g", "e", "z"} THEN rec ELSE e) EXCEPT !.pending = char]
        ELSE IF char = "/" \/ char = "?"
        THEN [e EXCEPT !.visual_mode = "", !.mode = "SEARCH", !.search_buffer = <<>>,
                       !.search_forward = (char = "/"), !.status_msg = Msg("")]
        ELSE IF char = "n" THEN GotoNextMatch(e)
        ELSE IF char = "N" THEN GotoPrevMatch(e)
        ELSE IF char = ":"
        THEN [e EXCEPT !.visual_mode = "", !.mode = "COMMAND", !.command_buffer = <<>>,
                       !.status_msg = Msg("")]
        ELSE e

\* DotReplay, once r is known
DotReplay_r(r) ==
    IF r.crashed THEN r ELSE [r EXCEPT !.dot_replaying = FALSE]

\* _dot_replay entered with depth replays already on the call stack: one more
\* than the interpreter's stack holds raises RecursionError, which no handler
\* catches
DotReplayAt(e, depth) ==
    IF e.dot_buffer = <<>> THEN e
    ELSE IF depth >= RecursionLimit
    THEN [e EXCEPT !.dot_replaying = TRUE, !.crashed = TRUE]
    ELSE DotReplay_r(ReplayKeys([e EXCEPT !.dot_replaying = TRUE], e.dot_buffer,
                                depth + 1))

\* _dot_replay
DotReplay(e) == DotReplayAt(e, 0)

\* ReplayKeys, once r is known
ReplayKeys_r(keys, depth, r) ==
    IF r.crashed THEN r ELSE ReplayKeys(ClampCursor(r), Tail(keys), depth)

\* the replayed key is a '.' that _handle_normal hands to _dot_replay again
ReplaysAgain(e, ev) ==
    ev.char = "." /\ ev.key # "escape" /\ e.pending = "" /\ ~e.read_only

\* the loop of _dot_replay over the recorded keys, depth replays being on the
\* call stack
ReplayKeys(e, keys, depth) ==
    IF keys = <<>> \/ e.crashed THEN e
    ELSE ReplayKeys_r(keys, depth,
                      IF e.mode = "NORMAL"
                      THEN (IF ReplaysAgain(e, Head(keys))
                            THEN DotReplayAt(e, depth)
                            ELSE HandleNormal(e, Head(keys)))
                      ELSE IF e.mode = "INSERT" THEN HandleInsert(e, Head(keys))
                      ELSE e)

\* OnKey, once r is known
OnKey_r(r) ==
    IF r.crashed THEN r ELSE ClampCursor(r)

\* on_key: record for the dot repeat, dispatch on the mode, clamp the cursor
OnKey(e, ev) ==
    LET e0 == IF ~e.dot_replaying /\ e.dot_recording
              THEN [e EXCEPT !.dot_buffer = Append(e.dot_buffer, ev)] ELSE e
    IN  OnKey_r(IF e0.mode = "NORMAL" THEN HandleNormal(e0, ev)
                ELSE IF e0.mode = "INSERT" THEN HandleInsert(e0, ev)
                ELSE IF e0.mode = "COMMAND" THEN HandleCommand(e0, ev)
                ELSE HandleSearch(e0, ev))

\* the key events delivered one after the other, up to an escaping exception
RECURSIVE Feed(_, _)
Feed(e, evs) ==
    IF evs = <<>> \/ e.crashed THEN e ELSE Feed(OnKey(e, Head(evs)), Tail(evs))

----------------------------------------------------------------------------
(* The diff engine (diff.py).  A document is a sequence of lines, a record  *)
(* of a JSONL file the sequence of its lines.  difflib.SequenceMatcher is   *)
(* modelled without its junk heuristics: isjunk is None, and the popular-   *)
(* element rule only applies to a second sequence of 200 or more elements.  *)

\* DiffResult(): the four aligned arrays and the hunk list
DiffResult ==
    [left_lines |-> <<>>, right_lines |-> <<>>, left_line_tags |-> <<>>,
     right_line_tags |-> <<>>, hunks |-> <<>>]

\* DiffHunk(left_start, left_count, right_start, right_count, tag)
DiffHunk(left_start, left_count, right_start, right_count, tag) ==
    [left_start |-> left_start, left_count |-> left_count,
     right_start |-> right_start, right_count |-> right_count, tag |-> tag]

\* one more row of the aligned arrays: the four appends of one loop body
AppendRow(result, l_line, r_line, tag) ==
    [result EXCEPT !.left_lines = Append(@, l_line),
                   !.right_lines = Append(@, r_line),
                   !.left_line_tags = Append(@, tag),
                   !.right_line_tags = Append(@, tag)]

AppendHunk(result, hunk) == [result EXCEPT !.hunks = Append(@, hunk)]

\* the length of the run of equal elements that ends at a[i], b[j] and
\* stays inside the window that starts at alo, blo (j2len of find_longest_match)
RECURSIVE RunLen(_, _, _, _, _, _)
RunLen(a, b, i, j, alo, blo) ==
    IF i < alo \/ j < blo THEN 0
    ELSE IF At(a, i) # At(b, j) THEN 0
    ELSE 1 + RunLen(a, b, i - 1, j - 1, alo, blo)

Match(i, j, size) == [i |-> i, j |-> j, size |-> size]

\* FindLongestMatch, once the largest run length is known: the first cell
\* in the order of the loops (i ascending, then j ascending) that reaches it
FindLongestMatch_best(a, b, alo, ahi, blo, bhi, best) ==
    IF best = 0 THEN Match(alo, blo, 0)
    ELSE LET i == CHOOSE i \in alo..(ahi - 1) :
                      /\ \E j \in blo..(bhi - 1) : RunLen(a, b, i, j, alo, blo) = best
                      /\ \A i2 \in alo..(i - 1) : \A j \in blo..(bhi - 1) :
                             RunLen(a, b, i2, j, alo, blo) < best
             j == CHOOSE j \in blo..(bhi - 1) :
                      /\ RunLen(a, b, i, j, alo, blo) = best
                      /\ \A j2 \in blo..(j - 1) : RunLen(a, b, i, j2, alo, blo) < best
         IN  Match(i - best + 1, j - best + 1, best)

\* SequenceMatcher.find_longest_match(alo, ahi, blo, bhi)
FindLongestMatch(a, b, alo, ahi, blo, bhi) ==
    LET sizes == {RunLen(a, b, i, j, alo, blo) : i \in alo..(ahi - 1), j \in blo..(bhi - 1)}
        best == IF sizes = {} THEN 0 ELSE CHOOSE k \in sizes : \A k2 \in sizes : k2 <= k
    IN  FindLongestMatch_best(a, b, alo, ahi, blo, bhi, best)

RECURSIVE MatchingBlocks(_, _, _, _, _, _)
\* MatchingBlocks, once the longest match m of the window is known
MatchingBlocks_m(a, b, alo, ahi, blo, bhi, m) ==
    IF m.size = 0 THEN <<>>
    ELSE (IF alo < m.i /\ blo < m.j
          THEN MatchingBlocks(a, b, alo, m.i, blo, m.j) ELSE <<>>)
         \o <<m>>
         \o (IF m.i + m.size < ahi /\ m.j + m.size < bhi
             THEN MatchingBlocks(a, b, m.i + m.size, ahi, m.j + m.size, bhi) ELSE <<>>)

\* the matching blocks of the window in increasing order: the queue loop of
\* get_matching_blocks followed by its sort
MatchingBlocks(a, b, alo, ahi, blo, bhi) ==
    MatchingBlocks_m(a, b, alo, ahi, blo, bhi, FindLongestMatch(a, b, alo, ahi, blo, bhi))

\* the second loop of get_matching_blocks: adjacent blocks become one
RECURSIVE CollapseAdjacent(_, _, _)
CollapseAdjacent(blocks, cur, acc) ==
    IF blocks = <<>> THEN (IF cur.size > 0 THEN Append(acc, cur) ELSE acc)
    ELSE LET m == Head(blocks)
         IN  IF cur.i + cur.size = m.i /\ cur.j + cur.size = m.j
             THEN CollapseAdjacent(Tail(blocks), Match(cur.i, cur.j, cur.size + m.size), acc)
             ELSE CollapseAdjacent(Tail(blocks), m,
                                   IF cur.size > 0 THEN Append(acc, cur) ELSE acc)

\* SequenceMatcher(None, a, b).get_matching_blocks(), with its final (la, lb, 0)
GetMatchingBlocks(a, b) ==
    Append(CollapseAdjacent(MatchingBlocks(a, b, 0, Len(a), 0, Len(b)), Match(0, 0, 0), <<>>),
           Match(Len(a), Len(b), 0))

Opcode(tag, i1, i2, j1, j2) == [tag |-> tag, i1 |-> i1, i2 |-> i2, j1 |-> j1, j2 |-> j2]

\* the loop of get_opcodes over the matching blocks; i, j are where the
\* previous block ended
RECURSIVE OpcodesFrom(_, _, _, _)
OpcodesFrom(blocks, i, j, acc) ==
    IF blocks = <<>> THEN acc
    ELSE LET m == Head(blocks)
             tag == IF i < m.i /\ j < m.j THEN "replace"
                    ELSE IF i < m.i THEN "delete"
                    ELSE IF j < m.j THEN "insert"
                    ELSE ""
             acc1 == IF tag # "" THEN Append(acc, Opcode(tag, i, m.i, j, m.j)) ELSE acc
             acc2 == IF m.size > 0
                     THEN Append(acc1, Opcode("equal", m.i, m.i + m.size, m.j, m.j + m.size))
                     ELSE acc1
         IN  OpcodesFrom(Tail(blocks), m.i + m.size, m.j + m.size, acc2)

\* SequenceMatcher(None, a, b).get_opcodes()
GetOpcodes(a, b) == OpcodesFrom(GetMatchingBlocks(a, b), 0, 0, <<>>)

\* the tag table without its "replace" entry
TagOfNoReplace(tag) == IF tag = "delete" THEN "DELETE" ELSE "INSERT"

\* the DiffTag of a non-equal opcode tag
TagOf(tag) ==
    IF tag = "delete" THEN "DELETE" ELSE IF tag = "insert" THEN "INSERT" ELSE "REPLACE"

\* _append_lines that pads the tags but not the lines of the shorter side
AppendLinesUnpadded(result, left_lines, right_lines, tag) ==
    LET tags == [k \in 1..Max(Len(left_lines), Len(right_lines)) |-> tag]
    IN  [result EXCEPT !.left_lines = @ \o left_lines,
                       !.right_lines = @ \o right_lines,
                       !.left_line_tags = @ \o tags,
                       !.right_line_tags = @ \o tags]

\* _append_lines: the rows of left_lines beside those of right_lines, the
\* shorter side padded with empty filler lines
RECURSIVE AppendLines(_, _, _, _)
AppendLines(result, left_lines, right_lines, tag) ==
    IF left_lines = <<>> /\ right_lines = <<>> THEN result
    ELSE AppendLines(AppendRow(result,
                               IF left_lines # <<>> THEN Head(left_lines) ELSE <<>>,
                               IF right_lines # <<>> THEN Head(right_lines) ELSE <<>>,
                               tag),
                     IF left_lines # <<>> THEN Tail(left_lines) ELSE <<>>,
                     IF right_lines # <<>> THEN Tail(right_lines) ELSE <<>>,
                     tag)

\* the opcode loop of _line_diff
RECURSIVE LineDiffOps(_, _, _, _)
LineDiffOps(result, left_lines, right_lines, ops) ==
    IF ops = <<>> THEN result
    ELSE LET op == Head(ops)
             dt == IF op.tag = "equal" THEN "EQUAL" ELSE TagOf(op.tag)
         IN  LineDiffOps(AppendLines(result, Slice(left_lines, op.i1, op.i2),
                                     Slice(right_lines, op.j1, op.j2), dt),
                         left_lines, right_lines, Tail(ops))

\* LineDiff, once the rows are appended: one hunk over all of them
LineDiff_r(hunk_start, r) ==
    LET total == Len(r.left_lines) - hunk_start
    IN  IF total > 0
        THEN AppendHunk(r, DiffHunk(hunk_start, total, hunk_start, total, "REPLACE"))
        ELSE r

\* _line_diff: the line diff of one changed record or segment
LineDiff(result, left_lines, right_lines) ==
    LineDiff_r(Len(result.left_lines),
               LineDiffOps(result, left_lines, right_lines, GetOpcodes(left_lines, right_lines)))

\* rows of one side only, as one hunk: the DELETE and INSERT loops
OneSided(result, left_lines, right_lines, tag) ==
    LET hunk_start == Len(result.left_lines)
        count == Max(Len(left_lines), Len(right_lines))
    IN  AppendHunk(AppendLines(result, left_lines, right_lines, tag),
                   DiffHunk(hunk_start, count, hunk_start, count, tag))

\* _FULL_DIFF_LIMIT, scaled down to the size of the documents of the model
FULL_DIFF_LIMIT == 20

\* _make_full_replace
MakeFullReplace(left_src, right_src) ==
    LET max_count == Max(Len(left_src), Len(right_src))
        rows == AppendLines(DiffResult, left_src, right_src, "REPLACE")
    IN  IF max_count > 0
        THEN AppendHunk(rows, DiffHunk(0, max_count, 0, max_count, "REPLACE"))
        ELSE rows

\* the opcode loop of _compute_line_diff_full
RECURSIVE LineDiffFullOps(_, _, _, _)
LineDiffFullOps(result, left_src, right_src, ops) ==
    IF ops = <<>> THEN result
    ELSE LET op == Head(ops)
             l == Slice(left_src, op.i1, op.i2)
             r == Slice(right_src, op.j1, op.j2)
         IN  LineDiffFullOps(IF op.tag = "equal" THEN AppendLines(result, l, r, "EQUAL")
                             ELSE OneSided(result, l, r, TagOf(op.tag)),
                             left_src, right_src, Tail(ops))

\* _compute_line_diff_full
ComputeLineDiffFull(left_src, right_src) ==
    IF Len(left_src) + Len(right_src) > FULL_DIFF_LIMIT
    THEN MakeFullReplace(left_src, right_src)
    ELSE LineDiffFullOps(DiffResult, left_src, right_src, GetOpcodes(left_src, right_src))

\* the line opens a block: its first non-blank character is "{" or "["
OpensBlock(line) == Lstrip(line) # <<>> /\ Head(Lstrip(line)) \in {"{", "["}

\* indent_counts of _detect_blocks: <<indent, count>> in the order in which
\* the indents first occur
RECURSIVE IndentCounts(_, _)
IndentCounts(lines0, acc) ==
    IF lines0 = <<>> THEN acc
    ELSE IF OpensBlock(Head(lines0))
    THEN IndentCounts(Tail(lines0),
                      LET indent == LeadingSpaces(Head(lines0))
                      IN  IF DictHas(acc, indent)
                          THEN DictSet(acc, indent, DictGet(acc, indent) + 1)
                          ELSE DictSet(acc, indent, 1))
    ELSE IndentCounts(Tail(lines0), acc)

\* DetectBlocks, once indent_counts is known
DetectBlocks_counts(counts) ==
    IF counts = <<>> THEN <<>>
    ELSE LET best == CHOOSE k \in 1..Len(counts) :
                         /\ \A k2 \in 1..Len(counts) : counts[k2][2] <= counts[k][2]
                         /\ \A k2 \in 1..(k - 1) : counts[k2][2] < counts[k][2]
         IN  IF counts[best][2] < 4 THEN <<>> ELSE counts[best]

\* _detect_blocks: <<best_indent, count>>, or <<>> for None
DetectBlocks(lines0) == DetectBlocks_counts(IndentCounts(lines0, <<>>))

\* the loop of _build_segments from line i on; block_start is -1 for None
RECURSIVE SegmentsFrom(_, _, _, _, _, _)
SegmentsFrom(lines0, target_indent, i, segments, block_start, gap_start) ==
    IF i >= Len(lines0)
    THEN (IF block_start # -1 THEN Append(segments, <<block_start, Len(lines0)>>)
          ELSE IF gap_start < Len(lines0) THEN Append(segments, <<gap_start, Len(lines0)>>)
          ELSE segments)
    ELSE LET line == At(lines0, i)
             stripped == Lstrip(line)
         IN  IF stripped = <<>> \/ LeadingSpaces(line) # target_indent
             THEN SegmentsFrom(lines0, target_indent, i + 1, segments, block_start, gap_start)
             ELSE IF Head(stripped) \in {"{", "["} /\ block_start = -1
             THEN SegmentsFrom(lines0, target_indent, i + 1,
                               IF gap_start < i THEN Append(segments, <<gap_start, i>>)
                               ELSE segments,
                               i, gap_start)
             ELSE IF Head(stripped) \in {"}", "]"} /\ block_start # -1
             THEN SegmentsFrom(lines0, target_indent, i + 1,
                               Append(segments, <<block_start, i + 1>>), -1, i + 1)
             ELSE SegmentsFrom(lines0, target_indent, i + 1, segments, block_start, gap_start)

\* _build_segments without the lines before the first block
BuildSegmentsNoLead(lines0, target_indent) ==
    LET segments == SegmentsFrom(lines0, target_indent, 0, <<>>, -1, 0)
    IN  IF segments = <<>> THEN segments ELSE Tail(segments)

\* _build_segments
BuildSegments(lines0, target_indent) == SegmentsFrom(lines0, target_indent, 0, <<>>, -1, 0)

\* src[s:e] of a segment
SegLines(src, seg) == Slice(src, seg[1], seg[2])

\* the paired loop of _handle_replace_segments
RECURSIVE ReplacePaired(_, _, _, _, _)
ReplacePaired(result, left_src, right_src, left_segs, right_segs) ==
    IF left_segs = <<>> \/ right_segs = <<>> THEN result
    ELSE LET l_lines == SegLines(left_src, Head(left_segs))
             r_lines == SegLines(right_src, Head(right_segs))
         IN  ReplacePaired(IF l_lines = r_lines
                           THEN AppendLines(result, l_lines, r_lines, "EQUAL")
                           ELSE LineDiff(result, l_lines, r_lines),
                           left_src, right_src, Tail(left_segs), Tail(right_segs))

\* one hunk per segment of one side: the loops over the segments of a
\* delete or insert opcode and over the surplus segments of a replace
RECURSIVE SegmentsOneSided(_, _, _, _)
SegmentsOneSided(result, src, segs, tag) ==
    IF segs = <<>> THEN result
    ELSE SegmentsOneSided(IF tag = "DELETE"
                          THEN OneSided(result, SegLines(src, Head(segs)), <<>>, tag)
                          ELSE OneSided(result, <<>>, SegLines(src, Head(segs)), tag),
                          src, Tail(segs), tag)

\* _handle_replace_segments
HandleReplaceSegments(result, left_src, right_src, left_segs, right_segs) ==
    LET paired == Min(Len(left_segs), Len(right_segs))
    IN  SegmentsOneSided(
            SegmentsOneSided(
                ReplacePaired(result, left_src, right_src, left_segs, right_segs),
                left_src, Drop(left_segs, paired), "DELETE"),
            right_src, Drop(right_segs, paired), "INSERT")

\* the equal branch of _compute_block_diff: the segments pair up row by row
RECURSIVE SegmentsEqual(_, _, _, _, _)
SegmentsEqual(result, left_src, right_src, left_segs, right_segs) ==
    IF left_segs = <<>> THEN result
    ELSE LET ls == Head(left_segs)[1]
             le == Head(left_segs)[2]
             rs == Head(right_segs)[1]
         IN  SegmentsEqual(AppendLines(result, Slice(left_src, ls, le),
                                       Slice(right_src, rs, rs + (le - ls)), "EQUAL"),
                           left_src, right_src, Tail(left_segs), Tail(right_segs))

\* the opcode loop of _compute_block_diff
RECURSIVE BlockDiffOps(_, _, _, _, _, _)
BlockDiffOps(result, left_src, right_src, left_segs, right_segs, ops) ==
    IF ops = <<>> THEN result
    ELSE LET op == Head(ops)
             l == Slice(left_segs, op.i1, op.i2)
             r == Slice(right_segs, op.j1, op.j2)
         IN  BlockDiffOps(
                 IF op.tag = "equal" THEN SegmentsEqual(result, left_src, right_src, l, r)
                 ELSE IF op.tag = "delete" THEN SegmentsOneSided(result, left_src, l, "DELETE")
                 ELSE IF op.tag = "insert" THEN SegmentsOneSided(result, right_src, r, "INSERT")
                 ELSE HandleReplaceSegments(result, left_src, right_src, l, r),
                 left_src, right_src, left_segs, right_segs, Tail(ops))

\* "\n".join(src[s:e]) for each segment; two keys are equal when their lines are
SegmentKeys(src, segs) == [k \in 1..Len(segs) |-> SegLines(src, segs[k])]

\* _compute_block_diff
ComputeBlockDiff(left_src, right_src, left_segs, right_segs) ==
    BlockDiffOps(DiffResult, left_src, right_src, left_segs, right_segs,
                 GetOpcodes(SegmentKeys(left_src, left_segs), SegmentKeys(right_src, right_segs)))

\* ComputeLineDiff, once the block structure of both sides is known
ComputeLineDiff_blocks(left_src, right_src, left_blocks, right_blocks) ==
    IF left_blocks # <<>> /\ right_blocks # <<>> /\ left_blocks[1] = right_blocks[1]
    THEN ComputeBlockDiff(left_src, right_src, BuildSegments(left_src, left_blocks[1]),
                          BuildSegments(right_src, left_blocks[1]))
    ELSE ComputeLineDiffFull(left_src, right_src)

\* _compute_line_diff
ComputeLineDiff(left_src, right_src) ==
    ComputeLineDiff_blocks(left_src, right_src, DetectBlocks(left_src), DetectBlocks(right_src))

\* the printable ASCII characters in code point order; "grave" holds the
\* place of the grave accent, which no text of the model contains
CodePoints ==
    <<" ", "!", "\"", "#", "$", "%", "&", "'", "(", ")", "*", "+", ",", "-", ".", "/",
      "0", "1", "2", "3", "4", "5", "6", "7", "8", "9", ":", ";", "<", "=", ">", "?",
      "@", "A", "B", "C", "D", "E", "F", "G", "H", "I", "J", "K", "L", "M", "N", "O",
      "P", "Q", "R", "S", "T", "U", "V", "W", "X", "Y", "Z", "[", "\\", "]", "^", "_",
      "grave", "a", "b", "c", "d", "e", "f", "g", "h", "i", "j", "k", "l", "m", "n", "o",
      "p", "q", "r", "s", "t", "u", "v", "w", "x", "y", "z", "{", "|", "}", "~">>

\* ord(c)
Ord(c) == 31 + CHOOSE k \in 1..Len(CodePoints) : CodePoints[k] = c

\* a < b for two strings
RECURSIVE StrLess(_, _)
StrLess(a, b) ==
    IF b = <<>> THEN FALSE
    ELSE IF a = <<>> THEN TRUE
    ELSE IF Head(a) = Head(b) THEN StrLess(Tail(a), Tail(b))
    ELSE Ord(Head(a)) < Ord(Head(b))

\* sorted(dict.items()): the pairs in increasing order of their keys
RECURSIVE SortedItems(_)
SortedItems(pairs) ==
    IF pairs = <<>> THEN <<>>
    ELSE LET k == CHOOSE k \in 1..Len(pairs) :
                      \A k2 \in 1..Len(pairs) : k2 = k \/ StrLess(pairs[k][1], pairs[k2][1])
         IN  <<pairs[k]>> \o SortedItems(RemoveAt(pairs, k - 1))

\* the value as json.dumps(sort_keys=True) walks it: every object lists its
\* members in increasing key order
RECURSIVE SortKeys(_)
SortKeys(val) ==
    IF val.t = "arr" THEN JArr([k \in 1..Len(val.v) |-> SortKeys(val.v[k])])
    ELSE IF val.t = "obj"
    THEN JObj(SortedItems([k \in 1..Len(val.v) |-> <<val.v[k][1], SortKeys(val.v[k][2])>>]))
    ELSE val

\* json.dumps(parsed, indent=4, ensure_ascii=False, sort_keys=normalize), split into lines
DumpsLines(parsed, normalize) ==
    IF normalize THEN DumpsIndent(SortKeys(parsed), 0) ELSE DumpsIndent(parsed, 0)

\* CanonicalLines, once the text is parsed
CanonicalLines_parsed(content, normalize, parsed) ==
    IF parsed.ok THEN DumpsLines(parsed.v, normalize) ELSE SplitLines(content)

\* normalize_json / format_json followed by split("\n"): the text itself
\* when it does not parse
CanonicalLines(content, normalize) ==
    CanonicalLines_parsed(content, normalize, JsonLoads(content))

\* ParseRecord, once the stripped line is parsed
ParseRecord_parsed(stripped, normalize, parsed) ==
    IF parsed.ok THEN DumpsLines(parsed.v, normalize) ELSE <<stripped>>

\* the records of _parse_jsonl_records for the lines of the content; a
\* record is the sequence of its lines
RECURSIVE RecordsOf(_, _)
RecordsOf(rows, normalize) ==
    IF rows = <<>> THEN <<>>
    ELSE IF Strip(Head(rows)) = <<>> THEN RecordsOf(Tail(rows), normalize)
    ELSE <<ParseRecord_parsed(Strip(Head(rows)), normalize, JsonLoads(Strip(Head(rows))))>>
         \o RecordsOf(Tail(rows), normalize)

\* _parse_jsonl_records
ParseJsonlRecords(content, normalize) == RecordsOf(SplitLines(content), normalize)

\* the blank row that separates a record from the one before it.  first is
\* True exactly while the output has no row: every record has a line
Separator(result, tag) ==
    IF result.left_lines = <<>> THEN result ELSE AppendRow(result, <<>>, <<>>, tag)

\* the equal branch of _compute_jsonl_diff
RECURSIVE RecordsEqual(_, _)
RecordsEqual(result, records) ==
    IF records = <<>> THEN result
    ELSE RecordsEqual(AppendLines(Separator(result, "EQUAL"), Head(records), Head(records),
                                  "EQUAL"),
                      Tail(records))

\* the DELETE and INSERT loops of _compute_jsonl_diff: one hunk per record
RECURSIVE RecordsOneSided(_, _, _)
RecordsOneSided(result, records, tag) ==
    IF records = <<>> THEN result
    ELSE RecordsOneSided(IF tag = "DELETE"
                         THEN OneSided(Separator(result, tag), Head(records), <<>>, tag)
                         ELSE OneSided(Separator(result, tag), <<>>, Head(records), tag),
                         Tail(records), tag)

\* the paired loop of the replace branch of _compute_jsonl_diff
RECURSIVE RecordsPaired(_, _, _)
RecordsPaired(result, left_records, right_records) ==
    IF left_records = <<>> \/ right_records = <<>> THEN result
    ELSE RecordsPaired(IF Head(left_records) = Head(right_records)
                       THEN AppendLines(Separator(result, "REPLACE"), Head(left_records),
                                        Head(left_records), "EQUAL")
                       ELSE LineDiff(Separator(result, "REPLACE"), Head(left_records),
                                     Head(right_records)),
                       Tail(left_records), Tail(right_records))

\* the replace branch of _compute_jsonl_diff
RecordsReplace(result, l, r) ==
    LET paired == Min(Len(l), Len(r))
    IN  RecordsOneSided(RecordsOneSided(RecordsPaired(result, l, r),
                                        Drop(l, paired), "DELETE"),
                        Drop(r, paired), "INSERT")

\* the opcode loop of _compute_jsonl_diff
RECURSIVE JsonlDiffOps(_, _, _, _)
JsonlDiffOps(result, left_records, right_records, ops) ==
    IF ops = <<>> THEN result
    ELSE LET op == Head(ops)
             l == Slice(left_records, op.i1, op.i2)
             r == Slice(right_records, op.j1, op.j2)
         IN  JsonlDiffOps(IF op.tag = "equal" THEN RecordsEqual(result, l)
                          ELSE IF op.tag = "delete" THEN RecordsOneSided(result, l, "DELETE")
                          ELSE IF op.tag = "insert" THEN RecordsOneSided(result, r, "INSERT")
                          ELSE RecordsReplace(result, l, r),
                          left_records, right_records, Tail(ops))

\* ComputeJsonlDiff, once the records of both sides are known
ComputeJsonlDiff_records(left_records, right_records) ==
    JsonlDiffOps(DiffResult, left_records, right_records,
                 GetOpcodes(left_records, right_records))

\* _compute_jsonl_diff
ComputeJsonlDiff(left, right, normalize) ==
    ComputeJsonlDiff_records(ParseJsonlRecords(left, normalize),
                             ParseJsonlRecords(right, normalize))

\* compute_json_diff
ComputeJsonDiff(left, right, normalize, jsonl) ==
    IF jsonl THEN ComputeJsonlDiff(left, right, normalize)
    ELSE ComputeLineDiff(CanonicalLines(left, normalize), CanonicalLines(right, normalize))

----------------------------------------------------------------------------
(* The editor under key events.  A run starts from a freshly constructed   *)
(* editor and delivers at most MaxKeys inputs.                              *)

MaxKeys == 3

\* a pretty-printed JSON document
DocNested ==
    <<<<"{">>,
      <<" ", " ", " ", " ", "\"", "a", "\"", ":", " ", "[">>,
      <<" ", " ", " ", " ", " ", " ", " ", " ", "1">>,
      <<" ", " ", " ", " ", "]", ",">>,
      <<" ", " ", " ", " ", "\"", "b", "\"", ":", " ", "2">>,
      <<"}">>>>

\* plain text with a bracket pair, an empty line and an indented line
DocText ==
    <<<<"a", "b", " ", "[", "a", "]">>,
      <<>>,
      <<" ", " ", "b">>>>

DocEmpty == << <<>> >>

Docs == {DocNested, DocText, DocEmpty}

Printable(chars) == {Ev(c, c) : c \in chars}

Special(keys) == {Ev(k, "") : k \in keys}

NormalKeys ==
    Printable({"h", "j", "k", "l", "w", "b", "0", "$", "^", "G", "%", "i", "I", "a", "A",
               "o", "O", "x", "p", "P", "u", "J", ".", "d", "c", "y", "r", "g", "e", "z",
               "/", "?", "n", "N", ":", "v", "V", "M", "R"})
    \cup Special({"escape", "pagedown", "pageup", "ctrl+d", "ctrl+u", "ctrl+e", "ctrl+y",
                  "ctrl+g", "ctrl+r"})

InsertKeys ==
    Printable({"b", "}", " ", "["})
    \cup Special({"escape", "backspace", "enter", "tab", "end", "home", "left", "right",
                  "up", "down"})

CommandKeys ==
    Printable({"$", "1", "2", "l", "w", "q", "f", "m", "t", "s", "/", "b"})
    \cup Special({"escape", "enter", "backspace"})

SearchKeys == Printable({"a", "b", "1", "("}) \cup Special({"escape", "enter", "backspace"})

\* the ':' commands typed as a whole
CommandLines ==
    {<<"s", "/", "a", "/", "b", "/">>,
     <<"%", "s", "/", "a", "/", "b", "/", "g">>,
     <<"1", ",", "2", "s", "/", "b", "/", "a", "b", "/">>,
     <<"s", "/", "z", "z", "/", "b", "/">>,
     <<"s", "/", "a", "/", "\\", "1", "/">>,
     <<"s", "/", "(", "/", "b", "/">>,
     <<"%", "s", "/", "$", ".", "b", "=", "/", "9", "/", "g">>,
     <<"s", "/", "$", ".", "a", "/", "b", "/">>,
     <<"f", "m", "t">>,
     <<"w">>,
     <<"3">>}

\* the searches typed as a whole
SearchLines ==
    {<<"$", ".", "b">>, <<"$", ".", "a", "[", "0", "]", "=", "1">>, <<"$", ".", ".", "b">>, <<"$", ".", "b", ">", "1">>}

\* SearchModelled, once f is known
SearchModelled_f(f) ==
    f.op # <<"~">> /\ (f.op \in {<<">">>, <<"<">>, <<">", "=">>, <<"<", "=">>}
                        => IsNumber(f.value))

\* the regular expression and the JSONPath filter of a search are inside the model
SearchModelled(pattern) ==
    IF IsJsonpathPattern(pattern)
    THEN SearchModelled_f(ParseJsonpathFilter(pattern))
    ELSE Modelled(pattern)

\* CommandModelled_m, once parts is known
CommandModelled_parts(m, parts) ==
    m.ok /\ Len(parts) >= 2
    => /\ SearchModelled(parts[1])
       /\ TemplateLiteral(parts[2]) \/ TemplateRejected(parts[2])

\* CommandModelled, once m is known
CommandModelled_m(cmd, m) ==
    CommandModelled_parts(m, SplitParts(Drop(cmd, m.at + 2), 0, At(cmd, m.at + 1), <<>>))

\* the pattern and the template of a substitute command are inside the model
CommandModelled(cmd) ==
    CommandModelled_m(cmd, SubMatch(cmd))

\* the key events of a line typed after opener: its characters, then Enter
Typed(opener, text) ==
    <<Ev(opener, opener)>> \o [j \in 1..Len(text) |-> Ev(text[j], text[j])]
    \o <<Ev("enter", "")>>

\* the variables hold the editor r, and no diff has been computed
Start(r) ==
    /\ lines = r.lines
    /\ cursor_row = r.cursor_row
    /\ cursor_col = r.cursor_col
    /\ mode = r.mode
    /\ pending = r.pending
    /\ status_msg = r.status_msg
    /\ undo_stack = r.undo_stack
    /\ redo_stack = r.redo_stack
    /\ yank_buffer = r.yank_buffer
    /\ yank_type = r.yank_type
    /\ folds = r.folds
    /\ collapsed_strings = r.collapsed_strings
    /\ visual_mode = r.visual_mode
    /\ visual_anchor_row = r.visual_anchor_row
    /\ visual_anchor_col = r.visual_anchor_col
    /\ command_buffer = r.command_buffer
    /\ search_buffer = r.search_buffer
    /\ search_pattern = r.search_pattern
    /\ search_forward = r.search_forward
    /\ search_matches = r.search_matches
    /\ current_match = r.current_match
    /\ scroll_top = r.scroll_top
    /\ read_only = r.read_only
    /\ dot_buffer = r.dot_buffer
    /\ dot_recording = r.dot_recording
    /\ dot_replaying = r.dot_replaying
    /\ crashed = r.crashed
    /\ diff_result = DiffResult

Commit(r) ==
    /\ lines' = r.lines
    /\ cursor_row' = r.cursor_row
    /\ cursor_col' = r.cursor_col
    /\ mode' = r.mode
    /\ pending' = r.pending
    /\ status_msg' = r.status_msg
    /\ undo_stack' = r.undo_stack
    /\ redo_stack' = r.redo_stack
    /\ yank_buffer' = r.yank_buffer
    /\ yank_type' = r.yank_type
    /\ folds' = r.folds
    /\ collapsed_strings' = r.collapsed_strings
    /\ visual_mode' = r.visual_mode
    /\ visual_anchor_row' = r.visual_anchor_row
    /\ visual_anchor_col' = r.visual_anchor_col
    /\ command_buffer' = r.command_buffer
    /\ search_buffer' = r.search_buffer
    /\ search_pattern' = r.search_pattern
    /\ search_forward' = r.search_forward
    /\ search_matches' = r.search_matches
    /\ current_match' = r.current_match
    /\ scroll_top' = r.scroll_top
    /\ read_only' = r.read_only
    /\ dot_buffer' = r.dot_buffer
    /\ dot_recording' = r.dot_recording
    /\ dot_replaying' = r.dot_replaying
    /\ crashed' = r.crashed
    /\ UNCHANGED diff_result

Init ==
    /\ \E doc \in Docs, ro \in BOOLEAN : Start(NewEditor(doc, ro))
    /\ hist = [n |-> 0]

\* one more input is delivered to a running editor
Deliver(evs) ==
    /\ ~crashed
    /\ hist.n < MaxKeys
    /\ Commit(Feed(St, evs))
    /\ hist' = [n |-> hist.n + 1]

\* the keys the editor is driven with in each mode
KeysOf(m) ==
    IF m = "NORMAL" THEN NormalKeys
    ELSE IF m = "INSERT" THEN InsertKeys
    ELSE IF m = "COMMAND" THEN CommandKeys
    ELSE SearchKeys

AllKeys == NormalKeys \cup InsertKeys \cup CommandKeys \cup SearchKeys

\* the line that Enter would run, if any, is inside the model
EnterModelled ==
    IF mode = "COMMAND" THEN CommandModelled(Strip(command_buffer))
    ELSE IF mode = "SEARCH" THEN SearchModelled(search_buffer)
    ELSE TRUE

\* on_key: one key event, handled by the handler of the current mode
Key(ev) ==
    /\ ev \in KeysOf(mode)
    /\ IF ev.key = "enter" THEN EnterModelled ELSE TRUE
    /\ Deliver(<<ev>>)

CommandLine(cmd) ==
    mode = "NORMAL" /\ pending = "" /\ CommandModelled(cmd) /\ Deliver(Typed(":", cmd))

SearchLine(pattern) ==
    mode = "NORMAL" /\ pending = "" /\ SearchModelled(pattern) /\ Deliver(Typed("/", pattern))

Next ==
    \/ \E ev \in AllKeys : Key(ev)
    \/ \E cmd \in CommandLines : CommandLine(cmd)
    \/ \E pattern \in SearchLines : SearchLine(pattern)

Spec == Init /\ [][Next]_vars

----------------------------------------------------------------------------
(* Claims checked under Spec. *)

\* C1: after every key event the buffer has at least one line and the cursor
\* row is a valid line index: len(lines) >= 1 and 0 <= cursor_row < len(lines).
C1_CursorRowValid == Len(lines) >= 1 /\ 0 <= cursor_row /\ cursor_row < Len(lines)

\* three inputs have emptied a buffer of several lines down to the single
\* empty line, where the cursor row can only be 0
C1_Witness ==
    /\ hist.n >= 3
    /\ undo_stack # <<>>
    /\ undo_stack[1].lines # << <<>> >>
    /\ lines = << <<>> >>
    /\ cursor_row = 0

\* C2: while the buffer is read-only no key event and no ':' command changes
\* the line array or the undo and redo stacks, and the mode never becomes Insert.
C2_ReadOnlyFrame ==
    [][read_only => /\ lines' = lines
                    /\ undo_stack' = undo_stack
                    /\ redo_stack' = redo_stack
                    /\ mode' # "INSERT"]_vars

\* a read-only editor has refused an edit
C2_Witness == read_only /\ hist.n > 0 /\ status_msg = Msg("[readonly]")

\* C5: whenever a Visual selection is active the editor is in none of the
\* Insert, Command and Search modes.
C5_VisualExcludesOtherModes == visual_mode # "" => mode = "NORMAL"

\* C6: a pending first key never outlives the next key event: from a state
\* with a pending key every key event leads to a state without one.
C6_PendingResolved == [][pending # "" => pending' = ""]_vars

----------------------------------------------------------------------------
(* Undo and redo after an edit sequence.  A run applies key events to a    *)
(* document, counting as an edit each key event that records an undo       *)
(* checkpoint, then presses u once per edit, then ctrl+r once per edit.    *)

MaxEditKeys == 4

DocLetter == << <<"a">> >>

UndoDocs == {DocLetter, DocText}

EditKeys ==
    Printable({"A", "x", "o", "J", "b", "}", "d", "p"})
    \cup Special({"escape", "backspace", "enter"})

InitUndo ==
    /\ \E doc \in UndoDocs : Start(NewEditor(doc, FALSE))
    /\ hist = [phase |-> "edit", doc0 |-> lines, keys |-> 0, n |-> 0, k |-> 0,
               applied |-> lines]

\* the editor waits for a Normal-mode command
Idle == mode = "NORMAL" /\ pending = "" /\ visual_mode = "" /\ ~crashed

\* the editor becomes r; the key counts as an edit when it recorded an undo entry
CommitEdit(r) ==
    /\ Commit(r)
    /\ hist' = [hist EXCEPT !.keys = @ + 1,
                            !.n = IF r.undo_stack # undo_stack THEN @ + 1 ELSE @]

\* one key of the edit sequence E
EditKey(ev) ==
    /\ hist.phase = "edit"
    /\ ~crashed
    /\ hist.keys < MaxEditKeys
    /\ CommitEdit(OnKey(St, ev))

\* u, once per edit of E
PressUndo ==
    /\ Idle
    /\ \/ hist.phase = "edit" /\ hist.n > 0
       \/ hist.phase = "undo" /\ hist.k > 0
    /\ Commit(OnKey(St, Ev("u", "u")))
    /\ hist' = IF hist.phase = "edit"
               THEN [hist EXCEPT !.phase = "undo", !.k = hist.n - 1, !.applied = lines]
               ELSE [hist EXCEPT !.k = @ - 1]

\* ctrl+r, once per edit of E, after all of E was undone
PressRedo ==
    /\ Idle
    /\ \/ hist.phase = "undo" /\ hist.k = 0
       \/ hist.phase = "redo" /\ hist.k > 0
    /\ Commit(OnKey(St, Ev("ctrl+r", "")))
    /\ hist' = IF hist.phase = "undo"
               THEN [hist EXCEPT !.phase = "redo", !.k = hist.n - 1]
               ELSE [hist EXCEPT !.k = @ - 1]

NextUndo ==
    \/ \E ev \in EditKeys : EditKey(ev)
    \/ PressUndo
    \/ PressRedo

SpecUndo == InitUndo /\ [][NextUndo]_vars

\* C3: undo and redo are mutual inverses for any edit sequence E applied to
\* doc: after one undo per edit of E the line array is exactly doc's, and
\* after one redo per edit it is exactly that of apply(E, doc).
C3_UndoRedoInverse ==
    /\ hist.phase = "undo" /\ hist.k = 0 => lines = hist.doc0
    /\ hist.phase = "redo" /\ hist.k = 0 => lines = hist.applied

----------------------------------------------------------------------------
(* Folds under edits.  A run starts from the pretty-printed document and   *)
(* delivers at most MaxCommands whole Normal-mode commands: fold commands, *)
(* cursor moves and edits that insert and delete lines.                    *)

MaxCommands == 4

\* the key events of the printable characters of s
Chars(s) == [j \in 1..Len(s) |-> Ev(s[j], s[j])]

Escape == <<Ev("escape", "")>>

FoldCommands == {Chars(<<"z", c>>) : c \in {"a", "c", "o", "M", "R"}}

MoveCommands == {Chars(<<"j">>), Chars(<<"k">>), Chars(<<"G">>)}

EditCommands ==
    {Chars(<<"d", "d">>), Chars(<<"J">>), Chars(<<"y", "y">>), Chars(<<"p">>),
     Chars(<<"P">>), Chars(<<"u">>), <<Ev("ctrl+r", "")>>,
     Chars(<<"o">>) \o Escape, Chars(<<"O">>) \o Escape,
     Chars(<<"c", "c">>) \o Escape,
     Chars(<<"i">>) \o <<Ev("enter", "")>> \o Escape,
     Chars(<<"A">>) \o <<Ev("backspace", "")>> \o Escape,
     Chars(<<"V", "j", "d">>), Chars(<<"v", "j", "d">>), Chars(<<"v", "j", "y">>),
     Typed(":", <<"f", "m", "t">>)}

InitFold ==
    /\ Start(NewEditor(DocNested, FALSE))
    /\ hist = [n |-> 0]

\* one more whole command is delivered to an editor waiting in Normal mode
Command(evs) ==
    /\ Idle
    /\ hist.n < MaxCommands
    /\ Commit(Feed(St, evs))
    /\ hist' = [n |-> hist.n + 1]

NextFold == \E evs \in FoldCommands \cup MoveCommands \cup EditCommands : Command(evs)

SpecFold == InitFold /\ [][NextFold]_vars

\* C4: after any sequence of edits and fold commands every fold (s, e)
\* satisfies 0 <= s < e <= len(lines) - 1.
C4_FoldsInBounds ==
    \A i \in 1..Len(folds) :
        /\ 0 <= folds[i][1]
        /\ folds[i][1] < folds[i][2]
        /\ folds[i][2] <= Len(lines) - 1

\* a fold has survived an edit that changed the number of lines
C4_Witness ==
    /\ folds # <<>>
    /\ undo_stack # <<>>
    /\ Len(lines) # Len(undo_stack[Len(undo_stack)].lines)
    /\ folds[1][2] # 5

----------------------------------------------------------------------------
(* Substitute commands.  A run starts from a JSON document on one line, a  *)
(* pretty-printed JSON document or a text, and delivers at most MaxSteps   *)
(* inputs: a cursor move, a deletion, an undo, or a whole ':s' command.    *)
(* hist keeps the editor as it was before the last input.                  *)

MaxSteps == 3

\* a JSON document on one line with the key b at two depths
DocFlat == <<<<"{", "\"", "a", "\"", ":", " ", "{", "\"", "b", "\"", ":", " ", "1", "}", ",", " ", "\"", "b", "\"", ":", " ", "2", "}">>>>

SubstDocs == {DocFlat, DocNested, DocText}

RegexCommands ==
    {<<"s", "/", "b", "/", "a", "/">>,
     <<"%", "s", "/", "b", "/", "a", "/", "g">>,
     <<"1", ",", "2", "s", "/", "b", "/", "a", "b", "/">>,
     <<"s", "/", "z", "z", "/", "b", "/">>,
     <<"s", "/", "a", "/", "\\", "1", "/">>,
     <<"s", "/", "(", "/", "b", "/">>}

JsonpathCommands ==
    {<<"s", "/", "$", ".", "b", "=", "/", "9", "/">>,
     <<"%", "s", "/", "$", ".", ".", "b", "=", "/", "9", "/", "g">>,
     <<"s", "/", "$", ".", "c", "=", "/", "9", "/">>,
     <<"s", "/", "$", ".", "b", "/", "c", "/">>}

SubstKeys == Printable({"j", "k", "x", "u"})

InitSubst ==
    \E doc \in SubstDocs :
        /\ Start(NewEditor(doc, FALSE))
        /\ hist = [n |-> 0, last |-> "init", pre |-> NewEditor(doc, FALSE), cmd |-> <<>>]

\* a key that moves the cursor, deletes a character or undoes
SubstKey(ev) ==
    /\ Idle
    /\ hist.n < MaxSteps
    /\ Commit(OnKey(St, ev))
    /\ hist' = [n |-> hist.n + 1, last |-> "key", pre |-> St, cmd |-> <<>>]

\* ':' cmd Enter
Substitute(cmd) ==
    /\ Idle
    /\ hist.n < MaxSteps
    /\ CommandModelled(cmd)
    /\ Commit(Feed(St, Typed(":", cmd)))
    /\ hist' = [n |-> hist.n + 1, last |-> "subst", pre |-> St, cmd |-> cmd]

NextSubst ==
    \/ \E ev \in SubstKeys : SubstKey(ev)
    \/ \E cmd \in RegexCommands \cup JsonpathCommands : Substitute(cmd)

SpecSubst == InitSubst /\ [][NextSubst]_vars

\* the pattern, the replacement and the flags of a well-formed ':s' command
CmdParts(cmd) ==
    LET m == SubMatch(cmd)
    IN  SplitParts(Drop(cmd, m.at + 2), 0, At(cmd, m.at + 1), <<>>)

CmdPattern(cmd) == CmdParts(cmd)[1]

CmdReplacement(cmd) == CmdParts(cmd)[2]

CmdGlobal(cmd) == Len(CmdParts(cmd)) > 2 /\ Contains(CmdParts(cmd)[3], "g")

\* the rows of ed's buffer inside the range cmd is written with: all of them
\* for '%', start..end counted from 1 for 'start,end', else the cursor row
RangeRows(cmd, ed) ==
    LET m == SubMatch(cmd)
        rows == 0..(Len(ed.lines) - 1)
    IN  IF m.range_spec = "%" THEN rows
        ELSE IF m.range_spec = "range"
        THEN {row \in rows : AtoI(m.start_s) <= row + 1 /\ row + 1 <= AtoI(m.end_s)}
        ELSE {ed.cursor_row}

\* the last input was a ':s' command with a regex pattern / a JSONPath pattern
RegexRan == hist.last = "subst" /\ ~IsJsonpathPattern(CmdPattern(hist.cmd))

JsonpathRan == hist.last = "subst" /\ IsJsonpathPattern(CmdPattern(hist.cmd))

\* every row outside the range of the last command is as it was
OutsideRangeKept ==
    /\ Len(lines) = Len(hist.pre.lines)
    /\ \A row \in 0..(Len(lines) - 1) :
           row \notin RangeRows(hist.cmd, hist.pre) => At(lines, row) = At(hist.pre.lines, row)

\* data with the value at path replaced by val
RECURSIVE SetAtPath(_, _, _)
SetAtPath(data, path, val) ==
    IF path = <<>> THEN val
    ELSE IF Head(path).k = "key"
    THEN JObj([j \in 1..Len(data.v) |->
                 IF data.v[j][1] = Head(path).s
                 THEN <<data.v[j][1], SetAtPath(data.v[j][2], Tail(path), val)>>
                 ELSE data.v[j]])
    ELSE JArr([j \in 1..Len(data.v) |->
                 IF j = Head(path).i + 1 THEN SetAtPath(data.v[j], Tail(path), val)
                 ELSE data.v[j]])

RECURSIVE SetAtPaths(_, _, _)
SetAtPaths(data, paths, val) ==
    IF paths = <<>> THEN data
    ELSE SetAtPaths(SetAtPath(data, Head(paths), val), Tail(paths), val)

\* the leaf paths a structural value substitute cmd selects in ed's document
SelectedLeaves(cmd, ed) ==
    LET data == JsonLoads(GetContent(ed)).v
        found == JsonpathFind(data, ParseJsonpathFilter(CmdPattern(cmd)).path)
        leaves == SelectSeq(found.paths, LAMBDA q : ~IsComplex(GetValueAtPath(data, q)))
    IN  IF CmdGlobal(cmd) THEN leaves ELSE Take(leaves, 1)

\* the last input was a structural value substitute ('$...=') on valid JSON
\* that reported success
ValueSubstituteDone ==
    /\ JsonpathRan
    /\ ParseJsonpathFilter(CmdPattern(hist.cmd)).op = <<"=">>
    /\ ParseJsonpathFilter(CmdPattern(hist.cmd)).value.t = "null"
    /\ JsonLoads(GetContent(hist.pre)).ok
    /\ status_msg.msg = "substitution(s)"

\* C7: after a structural value substitute succeeds on valid JSON, re-parsing
\* the buffer yields the original document with the value at each selected
\* leaf path (all with 'g', the first without) replaced by the new value and
\* everything else unchanged, and the reported count is the number of leaves
\* replaced.
C7_ValueSubstituteExact ==
    ValueSubstituteDone =>
        LET selected == SelectedLeaves(hist.cmd, hist.pre)
            new_value == JsonLoads(JsonEncodeReplacement(CmdReplacement(hist.cmd))).v
            now == JsonLoads(GetContent(St))
        IN  /\ now.ok
            /\ now.v = SetAtPaths(JsonLoads(GetContent(hist.pre)).v, selected, new_value)
            /\ status_msg.n = Len(selected)

\* C8 (as stated): a substitute changes only lines inside its range, for
\* regex and JSONPath patterns alike.
C8_OnlyInRange == hist.last = "subst" => OutsideRangeKept

\* C8 (amended): a substitute with a regex pattern changes only lines inside
\* its range: every line for '%', lines start..end (1-based, inclusive) for
\* 'start,end', and only the cursor line without a range.
C8_RegexOnlyInRange == RegexRan => OutsideRangeKept

\* a regex substitute has changed the buffer while a row outside its range
\* holds a match of its pattern
C8_Witness ==
    /\ RegexRan
    /\ lines # hist.pre.lines
    /\ \E row \in 0..(Len(lines) - 1) :
           /\ row \notin RangeRows(hist.cmd, hist.pre)
           /\ FindIter(At(hist.pre.lines, row), CmdPattern(hist.cmd), 0, FALSE) # <<>>

\* the command matches nothing in ed: no row of its range holds the regex
\* pattern, or the JSONPath pattern selects no path of the document
MatchesNothing(cmd, ed) ==
    IF IsJsonpathPattern(CmdPattern(cmd))
    THEN LET f == ParseJsonpathFilter(CmdPattern(cmd))
             parsed == JsonLoads(GetContent(ed))
         IN  /\ parsed.ok
             /\ f.op = <<>> \/ (f.op = <<"=">> /\ f.value.t = "null")
             /\ JsonpathFind(parsed.v, f.path) = [err |-> FALSE, paths |-> <<>>]
    ELSE /\ RegexLiteral(CmdPattern(cmd))
         /\ TemplateLiteral(CmdReplacement(cmd))
         /\ \A row \in RangeRows(cmd, ed) :
                FindIter(At(ed.lines, row), CmdPattern(cmd), 0, FALSE) = <<>>

\* C9: a substitute that matches nothing reports it and changes no state:
\* lines, cursor, undo stack and redo stack are as they were before it.
C9_NoMatchNoChange ==
    hist.last = "subst" /\ MatchesNothing(hist.cmd, hist.pre) =>
        /\ status_msg \in {Msg("Pattern not found"), Msg("JSONPath not found")}
        /\ lines = hist.pre.lines
        /\ cursor_row = hist.pre.cursor_row
        /\ cursor_col = hist.pre.cursor_col
        /\ undo_stack = hist.pre.undo_stack
        /\ redo_stack = hist.pre.redo_stack

\* C10: if the regex engine rejects the pattern or the replacement template
\* of a substitute, the error is reported in the status message, the lines
\* and the undo and redo stacks are as they were, and no error escapes the
\* key handler.
C10_RejectedReported ==
    /\ RegexRan
    /\ RegexRejected(CmdPattern(hist.cmd)) \/ TemplateRejected(CmdReplacement(hist.cmd))
    => /\ ~crashed
       /\ status_msg = Msg("invalid regex")
       /\ lines = hist.pre.lines
       /\ undo_stack = hist.pre.undo_stack
       /\ redo_stack = hist.pre.redo_stack

----------------------------------------------------------------------------
(* The diff engine on pairs of texts.  A diff view computes its result once, *)
(* when it is mounted; hist keeps the arguments of that call.               *)

ObjA == JObj(<< <<<<"a">>, JNum(1)>> >>)

ObjAB == JObj(<< <<<<"a">>, JNum(1)>>, <<<<"b">>, JNum(2)>> >>)

ObjBA == JObj(<< <<<<"b">>, JNum(2)>>, <<<<"a">>, JNum(1)>> >>)

Item(n) == JObj(<< <<<<"a">>, JNum(n)>> >>)

\* an array of objects, one block per object
Items(ns) == JArr([k \in 1..Len(ns) |-> Item(ns[k])])

\* {"a":1} and {"a":1,"b":2} as they are written, without blanks
TextA == <<"{", "\"", "a", "\"", ":", "1", "}">>

TextAB == <<"{", "\"", "a", "\"", ":", "1", ",", "\"", "b", "\"", ":", "2", "}">>

\* one record per line
Jsonl(vals) == StrJoin([k \in 1..Len(vals) |-> Dumps(vals[k])])

\* the texts that are diffed: JSON documents with and without a block
\* structure, JSONL files, plain text with an empty line, an unfinished
\* document and the empty text
DiffTexts ==
    {<<>>, TextA, TextAB,
     Dumps(ObjA), Dumps(ObjAB), Dumps(ObjBA),
     Dumps(Items(<<1, 2, 3, 4>>)), Dumps(Items(<<1, 2, 9, 4>>)),
     Dumps(Items(<<1, 2, 3>>)), Dumps(Items(<<1, 9, 3>>)),
     Dumps(Items(<<1, 2, 3, 4, 9>>)),
     Jsonl(<<ObjA, Item(2)>>), Jsonl(<<Item(7), ObjA, Item(2)>>),
     <<"x", "\n", "\n", "y">>,
     <<"{", "o", "o", "p", "s">>}

\* the variables of the editor
editor ==
    <<lines, cursor_row, cursor_col, mode, pending, status_msg, undo_stack, redo_stack,
      yank_buffer, yank_type, folds, collapsed_strings, visual_mode, visual_anchor_row,
      visual_anchor_col, command_buffer, search_buffer, search_pattern, search_forward, search_matches,
      current_match, scroll_top, read_only, dot_buffer, dot_recording, dot_replaying,
      crashed>>

InitDiff ==
    /\ Start(NewEditor(DocEmpty, FALSE))
    /\ hist = [n |-> 0, left |-> <<>>, right |-> <<>>, normalize |-> TRUE, jsonl |-> FALSE]

\* compute_json_diff(left, right, normalize, jsonl)
ComputeDiff(left, right, normalize, jsonl) ==
    /\ hist.n = 0
    /\ diff_result' = ComputeJsonDiff(left, right, normalize, jsonl)
    /\ hist' = [n |-> 1, left |-> left, right |-> right, normalize |-> normalize,
                jsonl |-> jsonl]
    /\ UNCHANGED editor

NextDiff ==
    \E left \in DiffTexts, right \in DiffTexts, normalize \in BOOLEAN, jsonl \in BOOLEAN :
        ComputeDiff(left, right, normalize, jsonl)

SpecDiff == InitDiff /\ [][NextDiff]_vars

\* the rows of a column that are tagged EQUAL, in order
RECURSIVE EqualRows(_, _)
EqualRows(column, tags) ==
    IF column = <<>> \/ tags = <<>> THEN <<>>
    ELSE (IF Head(tags) = "EQUAL" THEN <<Head(column)>> ELSE <<>>)
         \o EqualRows(Tail(column), Tail(tags))

\* the rows of a column that are not fillers, in order: a filler is an
\* empty line whose tag is not EQUAL
RECURSIVE NoFillerRows(_, _)
NoFillerRows(column, tags) ==
    IF column = <<>> \/ tags = <<>> THEN <<>>
    ELSE (IF Head(column) = <<>> /\ Head(tags) # "EQUAL" THEN <<>> ELSE <<Head(column)>>)
         \o NoFillerRows(Tail(column), Tail(tags))

\* s is t with zero or more elements left out
RECURSIVE IsSubsequence(_, _)
IsSubsequence(s, t) ==
    IF s = <<>> THEN TRUE
    ELSE IF t = <<>> THEN FALSE
    ELSE IF Head(s) = Head(t) THEN IsSubsequence(Tail(s), Tail(t))
    ELSE IsSubsequence(s, Tail(t))

\* "\n\n".join(blocks).split("\n"): the records with a blank line between them
RECURSIVE JoinRecords(_)
JoinRecords(records) ==
    IF records = <<>> THEN << <<>> >>
    ELSE IF Len(records) = 1 THEN records[1]
    ELSE records[1] \o << <<>> >> \o JoinRecords(Tail(records))

\* the lines of the canonicalised document: format_json / normalize_json,
\* or format_jsonl / normalize_jsonl for a JSONL file
CanonicalDoc(content, normalize, jsonl) ==
    IF jsonl THEN JoinRecords(ParseJsonlRecords(content, normalize))
    ELSE CanonicalLines(content, normalize)

\* the canonicalised documents of the diff that was computed
LeftDoc == CanonicalDoc(hist.left, hist.normalize, hist.jsonl)

RightDoc == CanonicalDoc(hist.right, hist.normalize, hist.jsonl)

Computed == hist.n = 1

\* the 1-based rows at which a maximal run of non-EQUAL rows starts
RunStarts(tags) ==
    {i \in 1..Len(tags) : tags[i] # "EQUAL" /\ (i = 1 \/ tags[i - 1] = "EQUAL")}

\* the number of rows of the maximal run of non-EQUAL rows that starts at i
RunLength(tags, i) ==
    CHOOSE n \in 1..Len(tags) :
        /\ \A k \in i..(i + n - 1) : k <= Len(tags) /\ tags[k] # "EQUAL"
        /\ i + n > Len(tags) \/ tags[i + n] = "EQUAL"

\* C11: the hunk list is exactly the list of the maximal runs of non-EQUAL
\* rows, in increasing row order: every hunk starts where such a run starts
\* and has its length, and every such run is a hunk.
C11_HunksAreMaximalRuns ==
    LET tags == diff_result.left_line_tags
        hunks == diff_result.hunks
    IN  /\ \A k \in 1..Len(hunks) :
               /\ hunks[k].left_start + 1 \in RunStarts(tags)
               /\ hunks[k].left_count = RunLength(tags, hunks[k].left_start + 1)
               /\ hunks[k].right_start = hunks[k].left_start
               /\ hunks[k].right_count = hunks[k].left_count
        /\ \A k \in 1..(Len(hunks) - 1) : hunks[k].left_start < hunks[k + 1].left_start
        /\ \A i \in RunStarts(tags) : \E k \in 1..Len(hunks) : hunks[k].left_start + 1 = i

\* C12: the two line arrays and the two tag arrays of a DiffResult have
\* the same length, and the tag arrays are equal row by row.
C12_AlignedArrays ==
    /\ Len(diff_result.left_lines) = Len(diff_result.right_lines)
    /\ Len(diff_result.left_line_tags) = Len(diff_result.left_lines)
    /\ Len(diff_result.right_line_tags) = Len(diff_result.left_lines)
    /\ diff_result.left_line_tags = diff_result.right_line_tags

\* a diff whose sides needed padding: a row with a filler on the left and
\* a row with a filler on the right
C12_Witness ==
    /\ Computed
    /\ \E i \in 1..Len(diff_result.left_lines) :
           diff_result.left_lines[i] = <<>> /\ diff_result.right_lines[i] # <<>>
    /\ \E i \in 1..Len(diff_result.left_lines) :
           diff_result.right_lines[i] = <<>> /\ diff_result.left_lines[i] # <<>>

\* C13: the rows tagged EQUAL have the same text on both sides and, read
\* in order, are a subsequence of the canonicalised left document and of
\* the canonicalised right document.
C13_EqualRowsCommonSubsequence ==
    Computed =>
        /\ \A i \in 1..Len(diff_result.left_lines) :
               diff_result.left_line_tags[i] = "EQUAL" =>
                   diff_result.left_lines[i] = diff_result.right_lines[i]
        /\ IsSubsequence(EqualRows(diff_result.left_lines, diff_result.left_line_tags), LeftDoc)
        /\ IsSubsequence(EqualRows(diff_result.right_lines, diff_result.right_line_tags), RightDoc)

\* C14: a row tagged INSERT has an empty left text, a row tagged DELETE an
\* empty right text, and a side that has no line for a row holds an empty
\* line there under a tag other than EQUAL: the rows of a side that are not
\* such fillers are lines of that side's document, in order.
C14_FillersCarryTheTag ==
    Computed =>
        /\ \A i \in 1..Len(diff_result.left_lines) :
               /\ diff_result.left_line_tags[i] = "INSERT" => diff_result.left_lines[i] = <<>>
               /\ diff_result.right_line_tags[i] = "DELETE" => diff_result.right_lines[i] = <<>>
        /\ IsSubsequence(NoFillerRows(diff_result.left_lines, diff_result.left_line_tags), LeftDoc)
        /\ IsSubsequence(NoFillerRows(diff_result.right_lines, diff_result.right_line_tags),
                         RightDoc)

\* C15: when the two canonicalised documents together have more lines than
\* the size ceiling, the result of a JSON diff is one REPLACE hunk over the
\* whole output, every row tagged REPLACE.
C15_CeilingFullReplace ==
    Computed /\ ~hist.jsonl /\ Len(LeftDoc) + Len(RightDoc) > FULL_DIFF_LIMIT =>
        LET n == Len(diff_result.left_lines)
        IN  /\ n = Max(Len(LeftDoc), Len(RightDoc))
            /\ \A i \in 1..n : diff_result.left_line_tags[i] = "REPLACE"
            /\ diff_result.hunks = <<DiffHunk(0, n, 0, n, "REPLACE")>>

\* the diff of {"a":1} against {"a":1,"b":2}
AddedKeyScenario == Computed /\ hist.left = TextA /\ hist.right = TextAB /\ ~hist.jsonl

\* the line of the added key
LineB == <<" ", " ", " ", " ", "\"", "b", "\"", ":", " ", "2">>

\* the aligned arrays have equal length, and some row holds the line of the
\* added key on the right under the given tag beside an empty left line
AddedKeyRow(tag) ==
    /\ Len(diff_result.left_lines) = Len(diff_result.right_lines)
    /\ \E i \in 1..Len(diff_result.right_lines) :
           /\ diff_result.right_lines[i] = LineB
           /\ diff_result.right_line_tags[i] = tag
           /\ diff_result.left_lines[i] = <<>>

\* C16 as stated: the diff of {"a":1} against {"a":1,"b":2} has an
\* INSERT-tagged right line for "b": 2 beside an empty left filler.
C16_AddedKeyInsert == AddedKeyScenario => AddedKeyRow("INSERT")

\* C16: the diff of {"a":1} against {"a":1,"b":2} has equal-length aligned
\* arrays in which the right line for "b": 2 is tagged REPLACE and stands
\* beside an empty left filler.
C16_AddedKeyReplace == AddedKeyScenario => AddedKeyRow("REPLACE")

C16_Witness == AddedKeyScenario /\ hist.normalize /\ Len(diff_result.hunks) = 1

----------------------------------------------------------------------------
(* The fold table under the calls that edit it.  As in the tests of the     *)
(* repository (TestFolding, TestFoldIndexAdjust) the methods are called on  *)
(* the editor directly, with the row they act on chosen by the caller: a    *)
(* row inside a closed fold is one the cursor of a focused editor never     *)
(* rests on, but one the methods accept.                                    *)

\* c * n
Fill(c, n) == [j \in 1..n |-> c]

\* the records of a JSONL file: two one-line records with a long string value,
\* then an array over seven lines that holds an object over three
DocStrings ==
    <<<<"{", "\"", "s", "\"", ":", " ", "\"">> \o Fill("x", 60) \o <<"\"", "}">>,
      <<"{", "\"", "t", "\"", ":", " ", "\"">> \o Fill("y", 61) \o <<"\"", "}">>,
      <<"[">>,
      Spaces(4) \o <<"1", ",">>,
      Spaces(4) \o <<"{">>,
      Spaces(8) \o <<"\"", "b", "\"", ":", " ", "2">>,
      Spaces(4) \o <<"}", ",">>,
      Spaces(4) \o <<"3">>,
      <<"]">>>>

\* the calls made on one editor
MaxTableCalls == 3

\* the most rows one call inserts or deletes
MaxRows == 3

\* the line a paste inserts
PastedLine == Spaces(4) \o <<"0", ",">>

NoCall == [op |-> "", row |-> 0, count |-> 0, folds |-> <<>>, strings |-> {}]

InitFoldTable ==
    /\ Start(NewEditor(DocStrings, FALSE))
    /\ hist = [n |-> 0, last |-> NoCall, prev |-> NoCall]

\* the history after the call op(row, count) on the editor of the current state
Called(op, row, count) ==
    [n |-> hist.n + 1,
     last |-> [op |-> op, row |-> row, count |-> count, folds |-> folds,
               strings |-> collapsed_strings],
     prev |-> hist.last]

\* _toggle_fold(line_idx)
ToggleAt(line_idx) ==
    /\ hist.n < MaxTableCalls
    /\ line_idx < Len(lines)
    /\ Commit(ToggleFold(St, line_idx))
    /\ hist' = Called("toggle", line_idx, 0)

\* the rows sr..er are selected line-wise and deleted
DeleteRows(sr, er) ==
    /\ hist.n < MaxTableCalls
    /\ sr <= er /\ er < Len(lines) /\ er - sr < MaxRows
    /\ Commit(ExecuteVisualOperator([St EXCEPT !.visual_mode = "V",
                                               !.visual_anchor_row = sr,
                                               !.cursor_row = er], "d"))
    /\ hist' = Called("delete", sr, er - sr + 1)

\* count yanked lines are pasted before row
InsertRows(row, count) ==
    /\ hist.n < MaxTableCalls
    /\ row < Len(lines)
    /\ Commit(PasteBefore([St EXCEPT !.yank_type = "line",
                                     !.yank_buffer = [j \in 1..count |-> PastedLine],
                                     !.cursor_row = row]))
    /\ hist' = Called("insert", row, count)

TableRows == 0..(Len(DocStrings) + MaxRows - 1)

NextFoldTable ==
    \/ \E line_idx \in TableRows : ToggleAt(line_idx)
    \/ \E sr \in TableRows, er \in TableRows : DeleteRows(sr, er)
    \/ \E row \in TableRows, count \in 1..MaxRows : InsertRows(row, count)

SpecFoldTable == InitFoldTable /\ [][NextFoldTable]_vars

\* the pairs of a fold table
Pairs(f) == {f[i] : i \in 1..Len(f)}

\* the last call inserted hist.last.count lines at hist.last.row
Inserted == hist.last.op = "insert"

\* the last call deleted hist.last.count lines from hist.last.row on
Deleted == hist.last.op = "delete"

\* where an insertion of n lines at r, or a deletion of the n lines from r on,
\* moves the index i of a line it does not delete
Shifted(i, r, n) ==
    IF i < r THEN i ELSE IF Inserted THEN i + n ELSE i - n

\* C17: when N lines are inserted at row R, a fold ending above R is unchanged
\* and a fold starting at or below R moves down by N; when the N lines from R
\* on are deleted, a fold ending above R is unchanged, a fold starting below
\* the deleted rows moves up by N and a fold whose header is deleted is
\* removed; the collapsed-string lines move the same way.
C17_FoldsFollowTheLines ==
    LET R == hist.last.row
        N == hist.last.count
        headerDeleted(p) == Deleted /\ R <= p[1] /\ p[1] < R + N
    IN  Inserted \/ Deleted =>
            /\ \A p \in Pairs(hist.last.folds) :
                   /\ p[2] < R => p \in Pairs(folds)
                   /\ Inserted /\ p[1] >= R => <<p[1] + N, p[2] + N>> \in Pairs(folds)
                   /\ Deleted /\ p[1] >= R + N => <<p[1] - N, p[2] - N>> \in Pairs(folds)
            /\ \A q \in Pairs(folds) :
                   \E p \in Pairs(hist.last.folds) :
                       ~headerDeleted(p) /\ q[1] = Shifted(p[1], R, N)
            /\ collapsed_strings =
                   {Shifted(i, R, N) :
                        i \in {j \in hist.last.strings : ~(Deleted /\ R <= j /\ j < R + N)}}

\* a deletion that moves one fold up and removes another, and that removes one
\* collapsed string and leaves another where it was
C17_Witness ==
    /\ Deleted
    /\ \E p \in Pairs(hist.last.folds) : p[1] >= hist.last.row + hist.last.count
    /\ \E p \in Pairs(hist.last.folds) :
           hist.last.row <= p[1] /\ p[1] < hist.last.row + hist.last.count
    /\ \E i \in hist.last.strings :
           hist.last.row <= i /\ i < hist.last.row + hist.last.count
    /\ \E i \in hist.last.strings : i < hist.last.row
    /\ Len(folds) = 1
    /\ Cardinality(collapsed_strings) = 1

\* the folds (s, e) of the table before a deletion from row R on with s < R <= e
FoldsAround == {p \in Pairs(hist.last.folds) : p[1] < hist.last.row /\ hist.last.row <= p[2]}

\* C18 as stated: when N lines starting at row R are deleted, a fold (s, e)
\* with s < R <= e is kept and its end is reduced by exactly N.
C18_EndReducedByCount ==
    Deleted => \A p \in FoldsAround : <<p[1], p[2] - hist.last.count>> \in Pairs(folds)

\* C18: when N lines starting at row R are deleted, a fold (s, e) with
\* s < R <= e whose last row lies below the deleted rows is kept with its end
\* reduced by exactly N; when the deleted rows reach its last row or run past
\* it the fold ends at R - 1, and is removed when no row is left under its
\* header.
C18_EndReducedOrTruncated ==
    LET R == hist.last.row
        N == hist.last.count
    IN  Deleted =>
            \A p \in FoldsAround :
                IF p[2] >= R + N THEN <<p[1], p[2] - N>> \in Pairs(folds)
                ELSE IF R - 1 > p[1] THEN <<p[1], R - 1>> \in Pairs(folds)
                ELSE ~FoldHas(folds, p[1])

\* rows are deleted inside a fold that ends below them
C18_Witness ==
    /\ Deleted
    /\ \E p \in FoldsAround :
           /\ p[2] >= hist.last.row + hist.last.count
           /\ <<p[1], p[2] - hist.last.count>> \in Pairs(folds)

\* the last call toggled the fold at line hist.last.row
Toggled == hist.last.op = "toggle"

\* the folds of the table f that hide the line h
FoldsOver(f, h) == {p \in Pairs(f) : p[1] < h /\ h <= p[2]}

\* the line h is a foldable header without a fold in the table f
UnfoldedHeader(f, h) == ~FoldHas(f, h) /\ FindFoldableAt(lines, h) # None2

\* the toggle created exactly the fold from h to the row of the bracket that
\* closes the one h opens
CreatedFold(h) ==
    Pairs(folds) = Pairs(hist.last.folds) \cup {<<h, FindFoldableAt(lines, h)[2]>>}

\* the toggle removed exactly one fold of those in around
RemovedOneOf(around) ==
    \E p \in around : Pairs(folds) = Pairs(hist.last.folds) \ {p}

\* the last two calls toggled the same unfolded foldable header
ToggledTwice ==
    /\ Toggled
    /\ hist.prev.op = "toggle"
    /\ hist.prev.row = hist.last.row
    /\ ~FoldHas(hist.prev.folds, hist.last.row)
    /\ FoldHas(hist.last.folds, hist.last.row)

\* C19 as stated: a toggle at an unfolded foldable header h creates exactly the
\* fold from h to the row of the matching closing bracket and a second toggle
\* at h removes it; a toggle on a line inside an existing fold removes exactly
\* one enclosing fold and neither adds nor removes any other.
C19_ToggleAsStated ==
    LET h == hist.last.row
    IN  Toggled =>
            /\ UnfoldedHeader(hist.last.folds, h) => CreatedFold(h)
            /\ ToggledTwice => Pairs(folds) = Pairs(hist.prev.folds)
            /\ FoldsOver(hist.last.folds, h) # {} =>
                   RemovedOneOf(FoldsOver(hist.last.folds, h) \cup
                                {p \in Pairs(hist.last.folds) : p[1] = h})

\* C19: a toggle at an unfolded foldable header h creates exactly the fold from
\* h to the row of the matching closing bracket, also when h lies inside an
\* existing fold, and a second toggle at h removes it; a toggle on a line inside
\* an existing fold that is neither a fold header nor a foldable header removes
\* exactly one enclosing fold and neither adds nor removes any other.
C19_ToggleHeaderFirst ==
    LET h == hist.last.row
    IN  Toggled =>
            /\ UnfoldedHeader(hist.last.folds, h) => CreatedFold(h)
            /\ ToggledTwice => Pairs(folds) = Pairs(hist.prev.folds)
            /\ /\ FoldsOver(hist.last.folds, h) # {}
               /\ ~FoldHas(hist.last.folds, h)
               /\ FindFoldableAt(lines, h) = None2
               => RemovedOneOf(FoldsOver(hist.last.folds, h))

\* a toggle on a plain line under two folds, the outer one created by a toggle
\* at its header, has removed one of the two
C19_Witness ==
    /\ Toggled
    /\ Cardinality(FoldsOver(hist.last.folds, hist.last.row)) = 2
    /\ FindFoldableAt(lines, hist.last.row) = None2
    /\ hist.prev.op = "toggle"
    /\ UnfoldedHeader(hist.prev.folds, hist.prev.row)
    /\ Len(folds) = 1

----------------------------------------------------------------------------
(* Search and navigation: the cursor is moved, one search is typed, and n   *)
(* or N is pressed up to as many times as the search has matches.           *)

\* the cursor moves before the search
MaxMoves == 2

SearchDocs == {DocNested, DocText}

SearchPatterns == {<<"a">>, <<"b">>, <<" ">>}

SearchMoves == Printable({"j", "l", "w"})

InitSearch ==
    /\ \E doc \in SearchDocs : Start(NewEditor(doc, FALSE))
    /\ hist = [n |-> 0, opener |-> "", key |-> "", start |-> -1, visited |-> <<>>]

\* a movement key, before the search
MoveKey(ev) ==
    /\ hist.opener = ""
    /\ hist.n < MaxMoves
    /\ Commit(Feed(St, <<ev>>))
    /\ hist' = [hist EXCEPT !.n = hist.n + 1]

\* SearchFor, once r is known
SearchFor_r(opener, r) ==
    /\ Commit(r)
    /\ hist' = [hist EXCEPT !.opener = opener, !.start = r.current_match]

\* the search opener pattern Enter is typed
SearchFor(opener, pattern) ==
    /\ hist.opener = ""
    /\ SearchFor_r(opener, Feed(St, Typed(opener, pattern)))

\* PressMatchKey, once r is known
PressMatchKey_r(key, r) ==
    /\ Commit(r)
    /\ hist' = [hist EXCEPT !.key = key, !.visited = Append(hist.visited, r.current_match)]

\* n or N is pressed after the search, the same key every time
PressMatchKey(key) ==
    /\ hist.opener # ""
    /\ hist.key \in {"", key}
    /\ Len(hist.visited) < Len(search_matches)
    /\ PressMatchKey_r(key, Feed(St, Chars(<<key>>)))

NextSearch ==
    \/ \E ev \in SearchMoves : MoveKey(ev)
    \/ \E opener \in {"/", "?"}, pattern \in SearchPatterns : SearchFor(opener, pattern)
    \/ \E key \in {"n", "N"} : PressMatchKey(key)

SpecSearch == InitSearch /\ [][NextSearch]_vars

\* the match the editor was on before press i
MatchBefore(i) == IF i = 1 THEN hist.start ELSE hist.visited[i - 1]

\* the step in the list of matches that the pressed key stands for: n goes on
\* in the direction of the search, N against it
MatchStep == IF (hist.key = "n") = (hist.opener = "/") THEN 1 ELSE -1

\* C20: after a search with k >= 1 matches each n moves to the adjacent match
\* in the direction of the search (the next one after a / search, the previous
\* one after a ? search), wrapping at the ends of the buffer, so that k presses
\* visit every match once and come back to the first; N does the same in the
\* opposite direction.
C20_AdjacentMatchInSearchDirection ==
    LET k == Len(search_matches)
    IN  /\ \A i \in 1..Len(hist.visited) :
               hist.visited[i] = (MatchBefore(i) + MatchStep) % k
        /\ hist.visited # <<>> =>
               /\ cursor_row = At(search_matches, current_match)[1]
               /\ cursor_col = At(search_matches, current_match)[2]
        /\ Len(hist.visited) = k /\ k >= 1 =>
               /\ hist.visited[k] = hist.start
               /\ {hist.visited[i] : i \in 1..k} = 0..(k - 1)

----------------------------------------------------------------------------
(* Structural substitutes with a value filter.  A run starts from a        *)
(* pretty-printed object whose members are a number, a boolean, null and a *)
(* string, and delivers at most MaxSteps inputs: a cursor move, an undo,   *)
(* or a ':s' command whose pattern is '$.*=V' for a JSON literal V.        *)

\* { "a": 1, "b": true, "c": null, "d": "x" }, one member per line
DocLeaves ==
    <<<<"{">>,
      <<" ", "\"", "a", "\"", ":", " ", "1", ",">>,
      <<" ", "\"", "b", "\"", ":", " ", "t", "r", "u", "e", ",">>,
      <<" ", "\"", "c", "\"", ":", " ", "n", "u", "l", "l", ",">>,
      <<" ", "\"", "d", "\"", ":", " ", "\"", "x", "\"">>,
      <<"}">>>>

\* the JSON literals a filter is written with
FilterLiterals ==
    {<<"1">>, <<"2">>, <<"t", "r", "u", "e">>, <<"f", "a", "l", "s", "e">>,
     <<"n", "u", "l", "l">>, <<"\"", "x", "\"">>}

\* ':%s/$.*=V/9/g' and ':s/$.*=V/9/'
FilterCommands ==
    {<<"%", "s", "/", "$", ".", "*", "=">> \o v \o <<"/", "9", "/", "g">> : v \in FilterLiterals}
    \cup {<<"s", "/", "$", ".", "*", "=">> \o v \o <<"/", "9", "/">> : v \in FilterLiterals}

FilterKeys == Printable({"j", "u"})

InitFilter ==
    /\ Start(NewEditor(DocLeaves, FALSE))
    /\ hist = [n |-> 0, last |-> "init", pre |-> NewEditor(DocLeaves, FALSE), cmd |-> <<>>]

NextFilter ==
    \/ \E ev \in FilterKeys : SubstKey(ev)
    \/ \E cmd \in FilterCommands : Substitute(cmd)

SpecFilter == InitFilter /\ [][NextFilter]_vars

\* a and b are the same JSON value: the same type and the same content
RECURSIVE SameJson(_, _)
SameJson(a, b) ==
    /\ a.t = b.t
    /\ IF a.t = "obj"
       THEN /\ Len(a.v) = Len(b.v)
            /\ \A j \in 1..Len(a.v) :
                   a.v[j][1] = b.v[j][1] /\ SameJson(a.v[j][2], b.v[j][2])
       ELSE IF a.t = "arr"
       THEN /\ Len(a.v) = Len(b.v)
            /\ \A j \in 1..Len(a.v) : SameJson(a.v[j], b.v[j])
       ELSE a.v = b.v

\* the literal the filter of cmd is written with, as a JSON value
FilterLiteral(cmd) ==
    JsonLoads(Drop(CmdPattern(cmd), OpPosition(CmdPattern(cmd), <<"=">>) + 1)).v

\* the leaves the path of cmd matches in ed's document whose value is the
\* filter's literal: all of them with 'g', the first without
EqualLeaves(cmd, ed) ==
    LET data == JsonLoads(GetContent(ed)).v
        found == JsonpathFind(data, ParseJsonpathFilter(CmdPattern(cmd)).path)
        equal == SelectSeq(found.paths,
                           LAMBDA q : SameJson(GetValueAtPath(data, q), FilterLiteral(cmd)))
    IN  IF CmdGlobal(cmd) THEN equal ELSE Take(equal, 1)

\* the last input was a structural substitute '$path=V' on valid JSON
FilterSubstituteRan ==
    /\ JsonpathRan
    /\ hist.cmd \in FilterCommands
    /\ JsonLoads(GetContent(hist.pre)).ok

\* C21: a structural substitute with a value filter ($path=V) replaces only
\* the matching leaves whose current value equals V and leaves every other
\* matching leaf unchanged, for every JSON literal V (a string, a number,
\* true, false or null).
C21_OnlyEqualLeavesReplaced ==
    FilterSubstituteRan =>
        LET now == JsonLoads(GetContent(St))
        IN  /\ now.ok
            /\ SameJson(now.v,
                        SetAtPaths(JsonLoads(GetContent(hist.pre)).v,
                                   EqualLeaves(hist.cmd, hist.pre),
                                   JsonLoads(JsonEncodeReplacement(CmdReplacement(hist.cmd))).v))

----------------------------------------------------------------------------
(* The filter parser as a function of the pattern.  A run starts from one  *)
(* pattern (a path, then possibly an operator and a value text) and parses *)
(* it once; hist keeps the pattern and the parser's result.                *)

\* the paths: plain, with an index, with operator characters between brackets
ParsePaths ==
    {<<"$", ".", "a">>,
     <<"$", ".", "a", "[", "0", "]">>,
     <<"$", ".", "a", "[", "b", "=", "1", "]">>,
     <<"$", "[", "b", ">", "1", "]", ".", "c">>}

\* the value texts: a number, a word, and texts that hold operator characters
ParseValues ==
    {<<"1">>, <<"b">>, <<"c", "!", "=", "d">>, <<"x", ">", "1">>, <<"[", "<", "]">>}

ParsePatterns ==
    ParsePaths
    \cup {p \o Operators[k] \o v : p \in ParsePaths, k \in 1..Len(Operators), v \in ParseValues}

NotParsed == [path |-> <<>>, op |-> <<"?">>, value |-> JNull]

InitParse ==
    \E pattern \in ParsePatterns :
        /\ Start(NewEditor(DocText, FALSE))
        /\ hist = [pattern |-> pattern, done |-> FALSE, parsed |-> NotParsed]

\* parse_jsonpath_filter(pattern)
Parse ==
    /\ ~hist.done
    /\ hist' = [hist EXCEPT !.done = TRUE, !.parsed = ParseJsonpathFilter(hist.pattern)]
    /\ UNCHANGED <<editor, diff_result>>

NextParse == Parse

SpecParse == InitParse /\ [][NextParse]_vars

\* position idx of pattern is outside every [...] pair
OutsideBrackets(pattern, idx) ==
    /\ At(pattern, idx) \notin {"[", "]"}
    /\ Cardinality({j \in 0..(idx - 1) : At(pattern, j) = "["})
       = Cardinality({j \in 0..(idx - 1) : At(pattern, j) = "]"})

\* the positions outside brackets where a filter operator starts
OperatorPositions(pattern) ==
    {idx \in 0..(Len(pattern) - 1) :
        /\ OutsideBrackets(pattern, idx)
        /\ \E k \in 1..Len(Operators) : StartsWith(Drop(pattern, idx), Operators[k])}

\* the parser split pattern at idx
SplitAt(pattern, parsed, idx) ==
    /\ parsed.path = Take(pattern, idx)
    /\ parsed.op # <<>>
    /\ StartsWith(Drop(pattern, idx), parsed.op)
    /\ parsed.value = ParseJsonValue(Drop(pattern, idx + Len(parsed.op)))

\* C22: the filter parser splits at the leftmost filter operator outside
\* every [...] pair: the path is everything before it, the operator is the
\* one at that position, the value is everything after it; operator
\* characters between brackets or in the value part are never the split
\* point.  Without an operator outside brackets there is no filter.
C22_SplitAtLeftmostOperator ==
    hist.done =>
        LET at == OperatorPositions(hist.pattern)
        IN  IF at = {}
            THEN hist.parsed.path = hist.pattern /\ hist.parsed.op = <<>>
            ELSE SplitAt(hist.pattern, hist.parsed,
                         CHOOSE idx \in at : \A m \in at : idx <= m)

----------------------------------------------------------------------------
(* A read-only editor under key events.  A run starts from an editor       *)
(* constructed with read_only=True and delivers at most MaxKeys inputs,    *)
(* the keys and ':' commands of Spec; hist keeps the editor as it was      *)
(* before the last input, and that input.                                  *)

InitReadOnly ==
    \E doc \in {DocNested, DocText} :
        /\ Start(NewEditor(doc, TRUE))
        /\ hist = [n |-> 0, pre |-> NewEditor(doc, TRUE), evs |-> <<>>]

\* one more input is delivered and remembered
DeliverReadOnly(evs) ==
    /\ ~crashed
    /\ hist.n < MaxKeys
    /\ Commit(Feed(St, evs))
    /\ hist' = [n |-> hist.n + 1, pre |-> St, evs |-> evs]

ReadOnlyKey(ev) ==
    /\ ev \in KeysOf(mode)
    /\ IF ev.key = "enter" THEN EnterModelled ELSE TRUE
    /\ DeliverReadOnly(<<ev>>)

ReadOnlyCommandLine(cmd) ==
    mode = "NORMAL" /\ pending = "" /\ CommandModelled(cmd) /\ DeliverReadOnly(Typed(":", cmd))

NextReadOnly ==
    \/ \E ev \in AllKeys : ReadOnlyKey(ev)
    \/ \E cmd \in CommandLines : ReadOnlyCommandLine(cmd)

SpecReadOnly == InitReadOnly /\ [][NextReadOnly]_vars

\* the keys that attempt a mutation when no first key is pending; d and c
\* are also the operators of a Visual selection
MutatingKeys ==
    Printable({"i", "I", "a", "A", "o", "O", "x", "p", "P", "J", "u", ".", "d", "c", "r"})
    \cup Special({"ctrl+r"})

\* the ':' commands that attempt a mutation: the substitutes and ':fmt'
MutatingCommands == {cmd \in CommandLines : SubMatch(cmd).ok \/ cmd = <<"f", "m", "t">>}

\* the last input was a mutating key or command given in Normal mode
MutationAttempted ==
    /\ hist.n > 0
    /\ hist.pre.mode = "NORMAL"
    /\ hist.pre.pending = ""
    /\ \/ \E ev \in MutatingKeys : hist.evs = <<ev>>
       \/ \E cmd \in MutatingCommands : hist.evs = Typed(":", cmd)

\* lines, cursor, mode, yank buffer and both stacks are as before the input
KeptAsBefore ==
    /\ lines = hist.pre.lines
    /\ cursor_row = hist.pre.cursor_row
    /\ cursor_col = hist.pre.cursor_col
    /\ mode = hist.pre.mode
    /\ yank_buffer = hist.pre.yank_buffer
    /\ yank_type = hist.pre.yank_type
    /\ undo_stack = hist.pre.undo_stack
    /\ redo_stack = hist.pre.redo_stack

\* C23: on a read-only buffer every key or command that attempts a mutation
\* (i, I, a, A, o, O, x, p, P, J, u, Ctrl-R, '.', d, c, r, Visual d and c,
\* :s, :fmt) is a no-op that sets the status to "[readonly]": lines, cursor
\* position, mode, yank buffer and undo/redo stacks are as before the key.
C23_ReadOnlyNoOp ==
    MutationAttempted => KeptAsBefore /\ status_msg = Msg("[readonly]")

----------------------------------------------------------------------------
(* Search and command history.  The Enter handlers of Search and Command   *)
(* mode add the executed line to a history list before running it; the     *)
(* keys that read the lists back into the buffer (up, down) are not        *)
(* delivered here, so the lists are kept beside the editor, in hist.  A    *)
(* run executes whole searches and commands whose texts are numerals: the  *)
(* next unused numeral, or the newest or the oldest entry of the list      *)
(* again, or nothing at all.  One of the two lists (hist.long) is driven   *)
(* past its capacity while the other receives at most MaxShort entries.    *)

search_history_max == 50

command_history_max == 50

\* list.remove(x) for a list that contains x: without its first occurrence
ListRemove(list, x) ==
    RemoveAt(list, (CHOOSE j \in 1..Len(list) :
                        list[j] = x /\ \A m \in 1..(j - 1) : list[m] # x) - 1)

\* _add_to_search_history without the removal of the earlier copy
AddToSearchHistoryKeepCopy(history, pattern) ==
    IF pattern = <<>> THEN history
    ELSE LET inserted == <<pattern>> \o history
         IN  IF Len(inserted) > search_history_max
             THEN Take(inserted, Len(inserted) - 1) ELSE inserted

\* _add_to_search_history: the list after the call
AddToSearchHistory(history, pattern) ==
    IF pattern = <<>> THEN history
    ELSE LET removed == IF \E j \in 1..Len(history) : history[j] = pattern
                        THEN ListRemove(history, pattern) ELSE history
             inserted == <<pattern>> \o removed
         IN  IF Len(inserted) > search_history_max
             THEN Take(inserted, Len(inserted) - 1) ELSE inserted

\* _add_to_command_history: the list after the call
AddToCommandHistory(history, cmd) ==
    IF cmd = <<>> THEN history
    ELSE LET removed == IF \E j \in 1..Len(history) : history[j] = cmd
                        THEN ListRemove(history, cmd) ELSE history
             inserted == <<cmd>> \o removed
         IN  IF Len(inserted) > command_history_max
             THEN Take(inserted, Len(inserted) - 1) ELSE inserted

\* the executions of the list that is driven past its capacity, of the
\* other list, and the executions that repeat an entry
MaxLong == 52

MaxShort == 1

MaxRepeats == 1

InitHistory ==
    \E long \in {"search", "command"} :
        /\ Start(NewEditor(DocText, FALSE))
        /\ hist = [long |-> long, search_history |-> <<>>, command_history |-> <<>>,
                   searches |-> 0, commands |-> 0, repeats |-> 0,
                   last |-> "init", text |-> <<>>, before |-> <<>>]

\* the texts the next execution may have: the next unused numeral, nothing,
\* and while a repeat is left, the newest and the oldest entry of history
NextTexts(history, used) ==
    {ItoA(used + 1), <<>>}
    \cup (IF hist.repeats < MaxRepeats /\ history # <<>>
          THEN {history[1], history[Len(history)]} ELSE {})

\* '/' pattern Enter
ExecuteSearchLine(pattern) ==
    /\ Idle
    /\ hist.searches < (IF hist.long = "search" THEN MaxLong ELSE MaxShort)
    /\ pattern \in NextTexts(hist.search_history, hist.searches)
    /\ Commit(Feed(St, Typed("/", pattern)))
    /\ hist' = [hist EXCEPT
                  !.search_history = AddToSearchHistory(@, pattern),
                  !.searches = IF pattern = ItoA(@ + 1) THEN @ + 1 ELSE @,
                  !.repeats = IF pattern \in {<<>>, ItoA(hist.searches + 1)} THEN @ ELSE @ + 1,
                  !.last = "search", !.text = pattern, !.before = hist.search_history]

\* ':' cmd Enter
ExecuteCommandLine(cmd) ==
    /\ Idle
    /\ hist.commands < (IF hist.long = "command" THEN MaxLong ELSE MaxShort)
    /\ cmd \in NextTexts(hist.command_history, hist.commands)
    /\ Commit(Feed(St, Typed(":", cmd)))
    /\ hist' = [hist EXCEPT
                  !.command_history = AddToCommandHistory(@, Strip(cmd)),
                  !.commands = IF cmd = ItoA(@ + 1) THEN @ + 1 ELSE @,
                  !.repeats = IF cmd \in {<<>>, ItoA(hist.commands + 1)} THEN @ ELSE @ + 1,
                  !.last = "command", !.text = Strip(cmd), !.before = hist.command_history]

NextHistory ==
    \/ \E k \in 1..MaxLong : ExecuteSearchLine(ItoA(k)) \/ ExecuteCommandLine(ItoA(k))
    \/ ExecuteSearchLine(<<>>)
    \/ ExecuteCommandLine(<<>>)

SpecHistory == InitHistory /\ [][NextHistory]_vars

\* no entry of list occurs twice
NoDuplicates(list) == \A i, j \in 1..Len(list) : list[i] = list[j] => i = j

\* list is what executing text makes of before: text in front, the other
\* entries in their order, the ones beyond the capacity dropped from the end
MovedToFront(list, before, text) ==
    LET others == SelectSeq(before, LAMBDA x : x # text)
    IN  list = Take(<<text>> \o others, 50)

\* C24: after any sequence of executed searches and commands that starts from
\* empty histories, the search history and the command history each hold at
\* most 50 entries and no entry twice, and are ordered most recent first: the
\* text executed last is at index 0, and executing an entry that is already
\* in the list moves it to the front.
C24_HistoriesBoundedAndOrdered ==
    /\ Len(hist.search_history) <= 50 /\ Len(hist.command_history) <= 50
    /\ NoDuplicates(hist.search_history) /\ NoDuplicates(hist.command_history)
    /\ hist.last = "search" /\ hist.text # <<>>
       => MovedToFront(hist.search_history, hist.before, hist.text)
    /\ hist.last = "command" /\ hist.text # <<>>
       => MovedToFront(hist.command_history, hist.before, hist.text)

\* a full search history has lost its oldest entry to a new one, and then
\* its oldest entry was executed again and moved to the front
C24_Witness ==
    /\ hist.last = "search"
    /\ hist.searches > 50
    /\ Len(hist.before) = 50
    /\ hist.text = hist.before[50]
    /\ hist.search_history[1] = hist.text
    /\ hist.search_history[2] = hist.before[1]

----------------------------------------------------------------------------
(* The bound of the undo stack.  A run starts from the one-line buffer     *)
(* "abc" and presses x (one checkpoint each, also on the emptied line) up  *)
(* to MaxCheckpoints times, with at most MaxUndos presses of u and any     *)
(* Ctrl-R in between.  hist keeps the undo stack and the checkpoint data   *)
(* as they were before the last key.                                       *)

MaxCheckpoints == 202

MaxUndos == 2

DocAbc == << <<"a", "b", "c">> >>

InitUndoCap ==
    /\ Start(NewEditor(DocAbc, FALSE))
    /\ hist = [checkpoints |-> 0, undos |-> 0, last |-> "init", before |-> <<>>,
               snap |-> [lines |-> DocAbc, row |-> 0, col |-> 0]]

\* the key is delivered; hist remembers the stack and the buffer before it
CapKey(ev, what) ==
    /\ Idle
    /\ Commit(OnKey(St, ev))
    /\ hist' = [checkpoints |-> hist.checkpoints + (IF what = "edit" THEN 1 ELSE 0),
                undos |-> hist.undos + (IF what = "undo" THEN 1 ELSE 0),
                last |-> what, before |-> undo_stack,
                snap |-> [lines |-> lines, row |-> cursor_row, col |-> cursor_col]]

PressX == hist.checkpoints < MaxCheckpoints /\ CapKey(Ev("x", "x"), "edit")

PressU == hist.undos < MaxUndos /\ CapKey(Ev("u", "u"), "undo")

PressCtrlR == redo_stack # <<>> /\ CapKey(Ev("ctrl+r", ""), "redo")

NextUndoCap == PressX \/ PressU \/ PressCtrlR

SpecUndoCap == InitUndoCap /\ [][NextUndoCap]_vars

\* C25: after any sequence of operations the undo stack holds at most 200
\* entries; when a new checkpoint would exceed that, the oldest entry is the
\* one discarded.
C25_UndoStackBounded ==
    /\ Len(undo_stack) <= 200
    /\ hist.last = "edit" /\ Len(hist.before) = 200
       => undo_stack = Append(Tail(hist.before), hist.snap)

\* a checkpoint was added to a full stack whose oldest entry differs from
\* the second oldest, which is now the oldest
C25_Witness ==
    /\ hist.last = "edit"
    /\ Len(hist.before) = 200
    /\ hist.before[1] # hist.before[2]
    /\ Len(undo_stack) = 200
    /\ undo_stack[1] = hist.before[2]

----------------------------------------------------------------------------
(* The cursor column under Spec. *)

\* C26: after every key event the cursor column is within
\* [0, max(0, len(line) - 1)] in Normal mode and within [0, len(line)] in
\* Insert mode, line being the line under the cursor.
C26_CursorColInRange ==
    LET len == Len(At(lines, cursor_row))
    IN  /\ mode = "NORMAL" => 0 <= cursor_col /\ cursor_col <= Max(0, len - 1)
        /\ mode = "INSERT" => 0 <= cursor_col /\ cursor_col <= len

\* x has deleted the last character of a line under the cursor, and the
\* cursor has come back onto the new last character
C26_Witness ==
    /\ mode = "NORMAL"
    /\ undo_stack # <<>>
    /\ LET top == undo_stack[Len(undo_stack)]
       IN  /\ top.row = cursor_row
           /\ Len(top.lines) = Len(lines)
           /\ Len(At(top.lines, cursor_row)) = Len(At(lines, cursor_row)) + 1
           /\ top.col = Len(At(lines, cursor_row))
           /\ top.col > 0
           /\ cursor_col = top.col - 1

----------------------------------------------------------------------------
(* Jumps and page motions over folds.  A run starts from the pretty-       *)
(* printed document and delivers at most MaxMotions whole Normal-mode      *)
(* commands: fold commands, j and k, the jumps gg and G, and the page and  *)
(* half-page motions.  hist keeps the editor as it was before the last     *)
(* command, and that command.                                              *)

MaxMotions == 4

JumpCommands == {Chars(<<"g", "g">>), Chars(<<"G">>)}

PageCommands ==
    {<<Ev("pagedown", "")>>, <<Ev("pageup", "")>>, <<Ev("ctrl+d", "")>>, <<Ev("ctrl+u", "")>>}

InitMotion ==
    /\ Start(NewEditor(DocNested, FALSE))
    /\ hist = [n |-> 0, evs |-> <<>>, pre |-> NewEditor(DocNested, FALSE)]

\* one more whole command is delivered to an editor waiting in Normal mode
Motion(evs) ==
    /\ Idle
    /\ hist.n < MaxMotions
    /\ Commit(Feed(St, evs))
    /\ hist' = [n |-> hist.n + 1, evs |-> evs, pre |-> St]

NextMotion ==
    \E evs \in FoldCommands \cup {Chars(<<"j">>), Chars(<<"k">>)} \cup JumpCommands
               \cup PageCommands : Motion(evs)

SpecMotion == InitMotion /\ [][NextMotion]_vars

\* C27: after 'gg' the cursor is on the first line and after 'G' on the last
\* line, and in both cases the viewport top row equals the cursor row when
\* the key event completes, for every buffer and every fold state.
C27_JumpsToEndsAtViewportTop ==
    /\ hist.evs = Chars(<<"g", "g">>) => cursor_row = 0 /\ scroll_top = cursor_row
    /\ hist.evs = Chars(<<"G">>) => cursor_row = Len(lines) - 1 /\ scroll_top = cursor_row

\* the rows of ed's buffer that no fold hides
VisibleRows(ed) == {i \in 0..(Len(ed.lines) - 1) : ~IsLineFolded(ed.folds, i)}

\* the row count visible lines away from row in ed, going down (direction 1)
\* or up (direction -1): the visible row with exactly count visible rows
\* between row (excluded) and itself (included), or the last one that way
RowAway(ed, row, count, direction) ==
    LET ahead == {i \in VisibleRows(ed) : (i - row) * direction > 0}
        within(t) == {i \in ahead : (t - i) * direction >= 0}
    IN  IF ahead = {} THEN row
        ELSE IF Cardinality(ahead) < count
        THEN CHOOSE t \in ahead : ahead = within(t)
        ELSE CHOOSE t \in ahead : Cardinality(within(t)) = count

\* the number of visible lines and the direction of a page command
PageCount(evs) ==
    IF evs[1].key \in {"pagedown", "pageup"} THEN VisibleHeight ELSE VisibleHeight \div 2

PageDirection(evs) == IF evs[1].key \in {"pagedown", "ctrl+d"} THEN 1 ELSE -1

\* C28: a page or half-page motion of h visible lines from a visible row moves
\* the cursor to the visible row exactly h visible (non-folded) lines away in
\* that direction, or to the last (first) visible row if fewer remain, and
\* never lands on a row hidden inside a fold.
C28_PageMotionCountsVisibleLines ==
    hist.evs \in PageCommands =>
        /\ cursor_row = RowAway(hist.pre, hist.pre.cursor_row, PageCount(hist.evs),
                                PageDirection(hist.evs))
        /\ ~IsLineFolded(folds, cursor_row)

\* a page down has carried the cursor over a fold: hidden rows lie between
\* the row it left and the row it is on
C28_Witness ==
    /\ hist.evs = <<Ev("pagedown", "")>>
    /\ cursor_row > hist.pre.cursor_row + VisibleHeight
    /\ \E i \in (hist.pre.cursor_row + 1)..(cursor_row - 1) : IsLineFolded(folds, i)

----------------------------------------------------------------------------
(* Two editors of the diff view (differ.py).  Both panes are DiffEditors,  *)
(* read-only, linked as each other's _sync_target when the view is         *)
(* mounted.  A run mounts the view on two copies of one document, so that  *)
(* the diff has no hunk and both panes hold the document's lines, and      *)
(* delivers at most MaxSyncKeys inputs to either pane.  The variables hold *)
(* the left editor, hist.peer the right one.  The hunk keys ']c' and '[c'  *)
(* of DiffEditor are not delivered.                                        *)

MaxSyncKeys == 3

\* DiffEditor.set_diff_data on a freshly constructed DiffEditor("")
SetDiffData(ls) ==
    [NewEditor(DocEmpty, TRUE) EXCEPT
        !.lines = IF ls = <<>> THEN << <<>> >> ELSE ls,
        !.cursor_row = 0, !.cursor_col = 0, !.scroll_top = 0, !.folds = <<>>]

\* the loop of _fold_all_nested from line i: <<folds, collapsed strings>>
RECURSIVE FoldAllNestedFrom(_, _, _, _)
FoldAllNestedFrom(ls, i, f, cs) ==
    IF i >= Len(ls) THEN <<f, cs>>
    ELSE IF FindFoldableAt(ls, i) # None2
    THEN FoldAllNestedFrom(ls, i + 1,
                           FoldSet(f, FindFoldableAt(ls, i)[1], FindFoldableAt(ls, i)[2]), cs)
    ELSE FoldAllNestedFrom(ls, i + 1, f,
                           IF FindLongStringAt(ls, i) # None3 THEN cs \cup {i} ELSE cs)

\* _fold_all_nested: every block but the root, and every long string
FoldAllNested(e) ==
    [e EXCEPT !.folds = FoldDel(FoldAllNestedFrom(e.lines, 0, <<>>, {})[1], 0),
              !.collapsed_strings = FoldAllNestedFrom(e.lines, 0, <<>>, {})[2]]

\* _sync_folds_to_target: the target with the fold state of e
SyncFoldsToTarget(e, target) ==
    [target EXCEPT !.folds = e.folds, !.collapsed_strings = e.collapsed_strings]

\* the key ev makes editor e call one of the methods SyncJsonEditor
\* overrides: _toggle_fold, _open_fold, _close_fold, _fold_all, _unfold_all
CallsSyncedFoldMethod(e, ev) ==
    /\ e.mode = "NORMAL"
    /\ e.pending = "z"
    /\ ev.key # "escape"
    /\ ev.char \in {"a", "o", "c", "M", "R"}
    /\ ~e.read_only

\* the sync target after editor e has handled ev: the overridden methods
\* copy the fold state as their last step, before on_key clamps the cursor
TargetAfterKey(e, target, ev) ==
    IF CallsSyncedFoldMethod(e, ev)
    THEN SyncFoldsToTarget(HandleNormal(e, ev), target)
    ELSE target

\* both editors after e has handled the keys evs: <<e, target>>
RECURSIVE FeedSynced(_, _, _)
FeedSynced(e, target, evs) ==
    IF evs = <<>> \/ e.crashed THEN <<e, target>>
    ELSE FeedSynced(OnKey(e, Head(evs)), TargetAfterKey(e, target, Head(evs)), Tail(evs))

\* the keys delivered to a pane: moves, the fold keys, a refused edit, the
\* search repeat, and the search '/1' typed as a whole
SyncInputs ==
    {<<ev>> : ev \in Printable({"j", "k", "l", "$", "z", "a", "c", "M", "R", "A", "n"})}
    \cup {Typed("/", <<"1">>)}

\* JsonDiffApp.on_mount for two copies of doc
InitSync ==
    \E doc \in {DocNested, DocStrings} :
        /\ Start(FoldAllNested(SetDiffData(doc)))
        /\ hist = [n |-> 0, side |-> "none",
                   peer |-> SyncFoldsToTarget(FoldAllNested(SetDiffData(doc)),
                                              SetDiffData(doc))]

\* the left pane has the focus and handles evs
LeftKeys(evs) ==
    /\ ~crashed /\ ~hist.peer.crashed
    /\ hist.n < MaxSyncKeys
    /\ Commit(FeedSynced(St, hist.peer, evs)[1])
    /\ hist' = [n |-> hist.n + 1, side |-> "left", peer |-> FeedSynced(St, hist.peer, evs)[2]]

\* the right pane has the focus and handles evs
RightKeys(evs) ==
    /\ ~crashed /\ ~hist.peer.crashed
    /\ hist.n < MaxSyncKeys
    /\ Commit(FeedSynced(hist.peer, St, evs)[2])
    /\ hist' = [n |-> hist.n + 1, side |-> "right", peer |-> FeedSynced(hist.peer, St, evs)[1]]

NextSync == \E evs \in SyncInputs : LeftKeys(evs) \/ RightKeys(evs)

SpecSync == InitSync /\ [][NextSync]_vars

\* C29: whenever two editors are linked as sync peers in a side-by-side view,
\* after every key event handled by either of them their fold tables and
\* their collapsed-string sets are equal.
C29_PeersShareFoldState ==
    /\ Pairs(folds) = Pairs(hist.peer.folds)
    /\ collapsed_strings = hist.peer.collapsed_strings

----------------------------------------------------------------------------
(* The embedded-JSON panel of jets: the editor widget (jets/editor.py).    *)
(* jets has its own JsonEditor, without folds.  A handler of the widget    *)
(* yields [e, msg]: the editor after the key and the message it posted to  *)
(* the application.  A content is a string: characters with "\n" between   *)
(* the lines.                                                              *)

NoMessage == [type |-> "none"]

\* JsonEditor(initial_content, read_only=ro) of jets
JetsEditor(content, ro) ==
    [NewEditor(IF content = <<>> THEN << <<>> >> ELSE SplitLines(content), ro)
        EXCEPT !.collapsed_strings = {}]

\* set_content of jets; jsonl is off.  The undo and redo stacks are not touched.
SetContent(e, content) ==
    [e EXCEPT !.lines = IF content = <<>> THEN << <<>> >> ELSE SplitLines(content),
              !.cursor_row = 0, !.cursor_col = 0]

\* _save_undo of jets
JetsSaveUndo(e) ==
    LET pushed == Append(e.undo_stack,
                         [lines |-> e.lines, row |-> e.cursor_row, col |-> e.cursor_col])
    IN  [e EXCEPT !.undo_stack = IF Len(pushed) > 200 THEN Tail(pushed) ELSE pushed,
                  !.redo_stack = <<>>]

\* _clamp_cursor of jets
JetsClampCursor(e) ==
    LET row == Max(0, Min(e.cursor_row, Len(e.lines) - 1))
        line_len == Len(At(e.lines, row))
        max_col == IF e.mode = "NORMAL" THEN Max(0, line_len - 1) ELSE line_len
    IN  [e EXCEPT !.cursor_row = row, !.cursor_col = Max(0, Min(e.cursor_col, max_col))]

\* _undo of jets
JetsUndo(e) ==
    IF e.undo_stack = <<>> THEN [e EXCEPT !.status_msg = Msg("nothing to undo")]
    ELSE LET top == e.undo_stack[Len(e.undo_stack)]
         IN  [e EXCEPT !.redo_stack = Append(e.redo_stack,
                                             [lines |-> e.lines, row |-> e.cursor_row,
                                              col |-> e.cursor_col]),
                       !.undo_stack = SubSeq(e.undo_stack, 1, Len(e.undo_stack) - 1),
                       !.lines = top.lines, !.cursor_row = top.row, !.cursor_col = top.col,
                       !.status_msg = Msg("undone")]

\* _redo of jets
JetsRedo(e) ==
    IF e.redo_stack = <<>> THEN [e EXCEPT !.status_msg = Msg("nothing to redo")]
    ELSE LET top == e.redo_stack[Len(e.redo_stack)]
         IN  [e EXCEPT !.undo_stack = Append(e.undo_stack,
                                             [lines |-> e.lines, row |-> e.cursor_row,
                                              col |-> e.cursor_col]),
                       !.redo_stack = SubSeq(e.redo_stack, 1, Len(e.redo_stack) - 1),
                       !.lines = top.lines, !.cursor_row = top.row, !.cursor_col = top.col,
                       !.status_msg = Msg("redone")]

\* JetsEditEmbeddedJson, once result and parsed are known
JetsEditEmbeddedJson_parsed(e, result, parsed) ==
    IF ~parsed.ok
    THEN [e |-> [e EXCEPT !.status_msg = Msg("string is not valid JSON")], msg |-> NoMessage]
    ELSE IF ~IsComplex(parsed.v)
    THEN [e |-> [e EXCEPT !.status_msg = Msg("string is not a list or dict")],
          msg |-> NoMessage]
    ELSE [e |-> e,
          msg |-> [type |-> "EmbeddedEditRequested",
                   content |-> StrJoin(DumpsIndent(parsed.v, 0)),
                   source_row |-> e.cursor_row,
                   source_col_start |-> result[1], source_col_end |-> result[2]]]

\* _edit_embedded_json of jets; _find_string_at_cursor is the same text in
\* both widgets
JetsEditEmbeddedJson(e) ==
    LET result == FindStringAtCursor(e)
    IN  IF result[1] = -1
        THEN [e |-> [e EXCEPT !.status_msg = Msg("cursor not on a string value")],
              msg |-> NoMessage]
        ELSE JetsEditEmbeddedJson_parsed(e, result, JsonLoads(result[3]))

\* update_embedded_string of jets
UpdateEmbeddedString(e, row, col_start, col_end, new_content) ==
    LET e1 == JetsSaveUndo(e)
    IN  IF row >= Len(e1.lines) THEN Raise(e1)
        ELSE [e1 EXCEPT !.lines = SetAt(e1.lines, row,
                                        Take(At(e1.lines, row), col_start)
                                        \o DumpsStr(new_content)
                                        \o Drop(At(e1.lines, row), col_end))]

\* JetsExecCommand, once force, verb, arg and the content are known
JetsExecCommand_verb(e, force, verb, arg, content) ==
    IF verb = <<"w">>
    THEN IF e.read_only THEN [e |-> [e EXCEPT !.status_msg = Msg("[readonly]")], msg |-> NoMessage]
         ELSE IF ~force /\ ~JsonLoads(content).ok
         THEN [e |-> [e EXCEPT !.status_msg = Msg("JSON error")], msg |-> NoMessage]
         ELSE [e |-> e, msg |-> [type |-> "FileSaveRequested", content |-> content,
                                 file_path |-> arg, quit_after |-> FALSE]]
    ELSE IF verb = <<"q">>
    THEN [e |-> e, msg |-> [type |-> IF force THEN "ForceQuit" ELSE "Quit"]]
    ELSE IF verb \in {<<"w", "q">>, <<"x">>}
    THEN IF e.read_only THEN [e |-> e, msg |-> [type |-> "Quit"]]
         ELSE IF ~force /\ ~JsonLoads(content).ok
         THEN [e |-> [e EXCEPT !.status_msg = Msg("JSON error")], msg |-> NoMessage]
         ELSE [e |-> e, msg |-> [type |-> "FileSaveRequested", content |-> content,
                                 file_path |-> arg, quit_after |-> TRUE]]
    ELSE [e |-> e, msg |-> NoMessage]

\* _exec_command of jets for the save and quit verbs: a command that is no
\* line jump; jsonl is off
JetsExecCommand(e, cmd) ==
    LET parts == SplitVerb(cmd)
        force == EndsWith(parts[1], <<"!">>)
        verb == IF force THEN SubSeq(parts[1], 1, Len(parts[1]) - 1) ELSE parts[1]
    IN  JetsExecCommand_verb(e, force, verb, parts[2], GetContent(e))

\* JetsHandleCommand, once r is known
JetsHandleCommand_r(r) ==
    [r EXCEPT !.e.mode = IF r.e.mode = "COMMAND" THEN "NORMAL" ELSE r.e.mode,
              !.e.command_buffer = <<>>]

\* _handle_command of jets
JetsHandleCommand(e, ev) ==
    IF ev.key = "escape"
    THEN [e |-> [e EXCEPT !.mode = "NORMAL", !.command_buffer = <<>>, !.status_msg = Msg("")],
          msg |-> NoMessage]
    ELSE IF ev.key = "enter"
    THEN JetsHandleCommand_r(JetsExecCommand(e, Strip(e.command_buffer)))
    ELSE IF ev.key = "backspace"
    THEN [e |-> IF e.command_buffer # <<>>
                THEN [e EXCEPT !.command_buffer =
                                   SubSeq(e.command_buffer, 1, Len(e.command_buffer) - 1)]
                ELSE [e EXCEPT !.mode = "NORMAL"],
          msg |-> NoMessage]
    ELSE [e |-> IF ev.char # ""
                THEN [e EXCEPT !.command_buffer = Append(e.command_buffer, ev.char)]
                ELSE e,
          msg |-> NoMessage]

\* _handle_pending of jets for the pending key e
JetsHandlePending(e, char, key) ==
    IF key = "escape" \/ char = ""
    THEN [e |-> DotStop([e EXCEPT !.pending = "", !.status_msg = Msg("")]), msg |-> NoMessage]
    ELSE IF e.read_only /\ <<e.pending, char>> \notin {<<"y", "y">>, <<"g", "g">>, <<"e", "j">>}
    THEN [e |-> [e EXCEPT !.pending = "", !.status_msg = Msg("[readonly]")], msg |-> NoMessage]
    ELSE IF <<e.pending, char>> = <<"e", "j">>
    THEN JetsEditEmbeddedJson([e EXCEPT !.pending = ""])
    ELSE [e |-> DotStop([e EXCEPT !.pending = ""]), msg |-> NoMessage]

\* the x branch of _handle_normal of jets
JetsDeleteChar(e, ev) ==
    IF e.read_only THEN [e EXCEPT !.status_msg = Msg("[readonly]")]
    ELSE LET e1 == JetsSaveUndo(DotStop(DotStart(e, ev)))
             line == CurLine(e1)
         IN  IF line # <<>> /\ e1.cursor_col < Len(line)
             THEN [e1 EXCEPT !.lines = SetAt(e1.lines, e1.cursor_row,
                                             RemoveAt(line, e1.cursor_col))]
             ELSE e1

\* _handle_normal of jets for the keys j, x, u, ctrl+r, e and ":"
JetsHandleNormal(e, ev) ==
    IF e.pending # "" THEN JetsHandlePending(e, ev.char, ev.key)
    ELSE [msg |-> NoMessage,
          e |-> IF ev.char = "j" \/ ev.key = "down"
                THEN [e EXCEPT !.cursor_row = e.cursor_row + 1]
                ELSE IF ev.char = "x" THEN JetsDeleteChar(e, ev)
                ELSE IF ev.char = "u"
                THEN (IF e.read_only THEN [e EXCEPT !.status_msg = Msg("[readonly]")]
                      ELSE JetsUndo(e))
                ELSE IF ev.key = "ctrl+r"
                THEN (IF e.read_only THEN [e EXCEPT !.status_msg = Msg("[readonly]")]
                      ELSE JetsRedo(e))
                ELSE IF ev.char = "e" THEN [e EXCEPT !.pending = "e"]
                ELSE IF ev.char = ":"
                THEN [e EXCEPT !.mode = "COMMAND", !.command_buffer = <<>>,
                               !.status_msg = Msg("")]
                ELSE e]

\* JetsOnKey, once the mode's handler has run
JetsOnKey_r(r) == [r EXCEPT !.e = JetsClampCursor(r.e)]

\* on_key of jets in NORMAL and COMMAND mode
JetsOnKey(e, ev) ==
    LET e0 == IF ~e.dot_replaying /\ e.dot_recording
              THEN [e EXCEPT !.dot_buffer = Append(e.dot_buffer, ev)] ELSE e
    IN  JetsOnKey_r(IF e0.mode = "NORMAL" THEN JetsHandleNormal(e0, ev)
                    ELSE JetsHandleCommand(e0, ev))

----------------------------------------------------------------------------
(* The embedded-JSON panel of jets: the application (jets/app.py).  The    *)
(* application is a record: main is #editor, ej is #ej-editor (one widget  *)
(* for every nesting level), ej_stack is _ej_stack, focused is the id of   *)
(* the focused widget, visible says whether #ej-panel is shown, file is    *)
(* what the last save wrote to file_path, exited says that exit() ran.     *)

\* an entry of _ej_stack
EjEntry(row, col_start, col_end, restore_content, original) ==
    [row |-> row, col_start |-> col_start, col_end |-> col_end,
     restore_content |-> restore_content, original |-> original]

\* _ej_has_unsaved_changes
EjHasUnsavedChanges(a) ==
    a.ej_stack # <<>> /\ GetContent(a.ej) # a.ej_stack[Len(a.ej_stack)].original

\* the panel is hidden and the main editor gets its state and the focus back
HideEjPanel(a) ==
    [a EXCEPT !.visible = FALSE, !.main.read_only = a.main_was_read_only,
              !.focused = "editor"]

\* _close_ej_panel
CloseEjPanel(a) ==
    IF a.ej_stack = <<>> THEN HideEjPanel(a)
    ELSE LET top == a.ej_stack[Len(a.ej_stack)]
             rest == SubSeq(a.ej_stack, 1, Len(a.ej_stack) - 1)
         IN  IF rest # <<>>
             THEN [a EXCEPT !.ej_stack = rest, !.ej = SetContent(a.ej, top.restore_content)]
             ELSE HideEjPanel([a EXCEPT !.ej_stack = rest])

\* on_json_editor_embedded_edit_requested
OnEmbeddedEditRequested(a, event) ==
    LET pushed == IF a.focused = "ej-editor"
                  THEN [a EXCEPT !.ej_stack =
                                     Append(a.ej_stack,
                                            EjEntry(event.source_row, event.source_col_start,
                                                    event.source_col_end, GetContent(a.ej),
                                                    event.content))]
                  ELSE [a EXCEPT !.main_was_read_only = a.main.read_only,
                                 !.main.read_only = TRUE,
                                 !.ej_stack = <<EjEntry(event.source_row,
                                                        event.source_col_start,
                                                        event.source_col_end, <<>>,
                                                        event.content)>>]
    IN  [pushed EXCEPT !.ej = SetContent(pushed.ej, event.content),
                       !.visible = TRUE, !.focused = "ej-editor"]

\* OnFileSaveRequested, once the entry is popped and the content is minified
OnFileSaveRequested_minified(a, event, top, rest, minified) ==
    IF rest # <<>>
    THEN LET ls == SplitLines(top.restore_content)
             line == At(ls, top.row)
             new_content == StrJoin(SetAt(ls, top.row,
                                          Take(line, top.col_start) \o DumpsStr(minified)
                                          \o Drop(line, top.col_end)))
         IN  [a EXCEPT !.ej_stack = rest, !.ej = SetContent(a.ej, new_content)]
    ELSE LET a1 == [a EXCEPT !.ej_stack = rest,
                             !.main = UpdateEmbeddedString(
                                          [a.main EXCEPT !.read_only = a.main_was_read_only],
                                          top.row, top.col_start, top.col_end, minified)]
         IN  IF event.quit_after /\ ~a1.main.crashed
             THEN [a1 EXCEPT !.visible = FALSE, !.focused = "editor"]
             ELSE a1

\* OnFileSaveRequested, once the entry is popped and the content is parsed
OnFileSaveRequested_parsed(a, event, top, rest, parsed) ==
    IF ~parsed.ok
    THEN [a EXCEPT !.ej_stack = Append(rest, [top EXCEPT !.original = event.content])]
    ELSE OnFileSaveRequested_minified(a, event, top, rest, Dumps(parsed.v))

\* on_json_editor_file_save_requested; the help panel is closed and the
\* application was started on a file
OnFileSaveRequested(a, event) ==
    IF a.focused = "ej-editor" /\ a.ej_stack # <<>>
    THEN OnFileSaveRequested_parsed(a, event, a.ej_stack[Len(a.ej_stack)],
                                    SubSeq(a.ej_stack, 1, Len(a.ej_stack) - 1),
                                    JsonLoads(event.content))
    ELSE [a EXCEPT !.file = event.content, !.exited = event.quit_after]

\* on_json_editor_quit; the help panel is closed
OnQuit(a) ==
    IF a.focused = "ej-editor"
    THEN (IF EjHasUnsavedChanges(a) THEN a ELSE CloseEjPanel(a))
    ELSE [a EXCEPT !.exited = TRUE]

\* on_json_editor_force_quit; the help panel is closed
OnForceQuit(a) ==
    IF a.focused = "ej-editor" THEN CloseEjPanel(a) ELSE [a EXCEPT !.exited = TRUE]

\* the application handles the message a widget posted
OnMessage(a, msg) ==
    IF msg.type = "EmbeddedEditRequested" THEN OnEmbeddedEditRequested(a, msg)
    ELSE IF msg.type = "FileSaveRequested" THEN OnFileSaveRequested(a, msg)
    ELSE IF msg.type = "Quit" THEN OnQuit(a)
    ELSE IF msg.type = "ForceQuit" THEN OnForceQuit(a)
    ELSE a

\* AppKey, once the focused widget has handled the key
AppKey_r(a, r) ==
    OnMessage(IF a.focused = "ej-editor" THEN [a EXCEPT !.ej = r.e]
              ELSE [a EXCEPT !.main = r.e], r.msg)

\* a key goes to the focused widget, and the message it posts to the application
AppKey(a, ev) ==
    IF a.exited \/ a.main.crashed THEN a
    ELSE AppKey_r(a, JetsOnKey(IF a.focused = "ej-editor" THEN a.ej ELSE a.main, ev))

RECURSIVE AppFeed(_, _)
\* the keys of evs, one after the other
AppFeed(a, evs) ==
    IF evs = <<>> THEN a ELSE AppFeed(AppKey(a, Head(evs)), Tail(evs))

\* on_button_pressed for the button ej-close
PressEjClose(a) == CloseEjPanel(a)

----------------------------------------------------------------------------
(* Nested embedded editing under key events.  The variables hold           *)
(* #ej-editor; hist holds the rest of the application, the inputs          *)
(* delivered, and for every open level the contents that level has shown   *)
(* (own): the content it was opened with, the content after each key it    *)
(* handled, and the content a saved child was spliced into.                *)

MaxEjInputs == 7

\* a document whose member a holds an object whose member b holds an array
DocEmbedded ==
    <<"{", "\n",
      " ", " ", " ", " ", "\"", "a", "\"", ":", " ", "\"", "{", "\\", "\"", "b", "\\", "\"",
      ":", " ", "\\", "\"", "[", "1", "]", "\\", "\"", "}", "\"", "\n",
      "}">>

\* the application of hist around the #ej-editor of the variables
EjApp == [main |-> hist.main, ej |-> St, ej_stack |-> hist.ej_stack,
          focused |-> hist.focused, visible |-> hist.visible,
          main_was_read_only |-> hist.main_was_read_only, file |-> hist.file,
          exited |-> hist.exited]

\* the contents of the open levels after a step that led from own to a2
OwnAfter(own, a2) ==
    LET depth == Len(a2.ej_stack)
    IN  IF depth = 0 THEN <<>>
        ELSE Append(Take(own, depth - 1),
                    (IF depth <= Len(own) THEN own[depth] ELSE {}) \cup {GetContent(a2.ej)})

InitEmbedded ==
    /\ Start(JetsEditor(<<>>, FALSE))
    /\ hist = [n |-> 0, last |-> "none", pre |-> {}, own |-> <<>>,
               main |-> JetsEditor(DocEmbedded, FALSE), ej_stack |-> <<>>,
               focused |-> "editor", visible |-> FALSE, main_was_read_only |-> FALSE,
               file |-> DocEmbedded, exited |-> FALSE]

\* the application goes from EjApp to a2 by the input called what
EjStep(a2, what) ==
    /\ ~hist.exited /\ ~hist.main.crashed
    /\ hist.n < MaxEjInputs
    /\ Commit(a2.ej)
    /\ hist' = [n |-> hist.n + 1,
                last |-> IF hist.focused = "ej-editor" /\ hist.ej_stack # <<>>
                            /\ what = "u" /\ undo_stack # <<>>
                         THEN "undone" ELSE what,
                pre |-> IF hist.own = <<>> THEN {} ELSE hist.own[Len(hist.own)],
                own |-> OwnAfter(hist.own, a2),
                main |-> a2.main, ej_stack |-> a2.ej_stack, focused |-> a2.focused,
                visible |-> a2.visible, main_was_read_only |-> a2.main_was_read_only,
                file |-> a2.file, exited |-> a2.exited]

\* the keys typed at the focused editor
EjInputs ==
    [j |-> <<Ev("j", "j")>>, x |-> <<Ev("x", "x")>>, u |-> <<Ev("u", "u")>>,
     redo |-> <<Ev("ctrl+r", "")>>, ej |-> <<Ev("e", "e"), Ev("j", "j")>>,
     w |-> Typed(":", <<"w">>), q |-> Typed(":", <<"q">>),
     force_q |-> Typed(":", <<"q", "!">>), wq |-> Typed(":", <<"w", "q">>)]

\* the user types one of the inputs
TypeKeys(what) == EjStep(AppFeed(EjApp, EjInputs[what]), what)

\* the user clicks the close button of the panel
ClickEjClose == hist.visible /\ EjStep(PressEjClose(EjApp), "close")

NextEmbedded == (\E what \in DOMAIN EjInputs : TypeKeys(what)) \/ ClickEjClose

SpecEmbedded == InitEmbedded /\ [][NextEmbedded]_vars

\* C30: undo inside one level of embedded-JSON editing restores only earlier
\* states of that level's own content, never content of a parent or a child
\* level, whatever opens, saves and closes preceded it: after u has undone
\* something in #ej-editor, the editor shows a content the level has shown.
C30_UndoStaysInLevel ==
    hist.last = "undone" => GetContent(St) \in hist.pre

----------------------------------------------------------------------------
(* JSONL files in the editor (widget.py): a file of one record per line is *)
(* shown as pretty-printed blocks with a blank line between them and       *)
(* written back as one line per block.                                     *)

RECURSIVE SplitWs(_)
\* str.split(): the words between runs of whitespace
SplitWs(s) ==
    LET body == Lstrip(s)
        stops == {j \in 0..(Len(body) - 1) : IsSpace(At(body, j))}
        end == IF stops = {} THEN Len(body) ELSE CHOOSE j \in stops : \A k \in stops : j <= k
    IN  IF body = <<>> THEN <<>> ELSE <<Take(body, end)>> \o SplitWs(Drop(body, end))

RECURSIVE JoinSpace(_)
\* " ".join(parts)
JoinSpace(parts) ==
    IF parts = <<>> THEN <<>>
    ELSE IF Len(parts) = 1 THEN parts[1]
    ELSE parts[1] \o <<" ">> \o JoinSpace(Tail(parts))

RECURSIVE JoinBlocks(_)
\* "\n\n".join(blocks)
JoinBlocks(blocks) ==
    IF blocks = <<>> THEN <<>>
    ELSE IF Len(blocks) = 1 THEN blocks[1]
    ELSE blocks[1] \o <<"\n", "\n">> \o JoinBlocks(Tail(blocks))

\* the block _jsonl_to_pretty appends for a line that is not blank
PrettyBlock(stripped, parsed) ==
    IF parsed.ok THEN StrJoin(DumpsIndent(parsed.v, 0)) ELSE stripped

RECURSIVE PrettyBlocks(_)
\* the loop of _jsonl_to_pretty over the lines
PrettyBlocks(rows) ==
    IF rows = <<>> THEN <<>>
    ELSE (IF Strip(Head(rows)) = <<>> THEN <<>>
          ELSE <<PrettyBlock(Strip(Head(rows)), JsonLoads(Strip(Head(rows))))>>)
         \o PrettyBlocks(Tail(rows))

\* _jsonl_to_pretty
JsonlToPretty(content) == JoinBlocks(PrettyBlocks(SplitLines(content)))

RECURSIVE SplitBlocksFrom(_, _)
\* the loop of _split_jsonl_blocks over the lines, current being the lines of
\* the block that is open
SplitBlocksFrom(rows, current) ==
    IF rows = <<>> THEN (IF current # <<>> THEN <<StrJoin(current)>> ELSE <<>>)
    ELSE IF Strip(Head(rows)) # <<>> THEN SplitBlocksFrom(Tail(rows), Append(current, Head(rows)))
    ELSE (IF current # <<>> THEN <<StrJoin(current)>> ELSE <<>>)
         \o SplitBlocksFrom(Tail(rows), <<>>)

\* _split_jsonl_blocks
SplitJsonlBlocks(content) == SplitBlocksFrom(SplitLines(content), <<>>)

\* the line _pretty_to_jsonl appends for a block
JsonlLine(block, parsed) ==
    IF parsed.ok THEN Dumps(parsed.v) ELSE JoinSpace(SplitWs(block))

\* _pretty_to_jsonl
PrettyToJsonl(content) ==
    LET blocks == SplitJsonlBlocks(content)
    IN  StrJoin([j \in 1..Len(blocks) |-> JsonlLine(blocks[j], JsonLoads(blocks[j]))])

----------------------------------------------------------------------------
(* The JSONL round trip as a function of the file. *)

MaxJsonlLines == 3

\* lines of a JSONL file: records, lines that are no JSON, and a blank line
JsonlLines ==
    {<<"{", "\"", "a", "\"", ":", " ", "1", "}">>,
     <<"[", "1", ",", "2", "]">>,
     <<"7">>,
     <<"b", "a", "d">>,
     <<"n", "o", " ", " ", "j", "s", "o", "n">>,
     <<"{", "\"", "a", "\"", ":">>,
     <<>>}

RECURSIVE JsonlFiles(_)
\* the files of n lines
JsonlFiles(n) ==
    IF n = 1 THEN JsonlLines
    ELSE {f \o <<"\n">> \o l : f \in JsonlFiles(n - 1), l \in JsonlLines}

NotConverted == <<"?">>

InitJsonl ==
    /\ Start(NewEditor(<< <<>> >>, FALSE))
    /\ \E n \in 1..MaxJsonlLines : \E content \in JsonlFiles(n) :
           hist = [content |-> content, done |-> FALSE, pretty |-> NotConverted,
                   back |-> NotConverted]

\* the file is loaded (_jsonl_to_pretty) and saved again (_pretty_to_jsonl)
RoundTrip ==
    /\ ~hist.done
    /\ hist' = [hist EXCEPT !.done = TRUE, !.pretty = JsonlToPretty(hist.content),
                            !.back = PrettyToJsonl(JsonlToPretty(hist.content))]
    /\ UNCHANGED <<editor, diff_result>>

NextJsonl == RoundTrip

SpecJsonl == InitJsonl /\ [][NextJsonl]_vars

\* the lines of a file that are not blank: its records
RecordsIn(content) ==
    SelectSeq(SplitLines(content), LAMBDA l : Strip(l) # <<>>)

\* the lines of a written file
LinesOut(content) == IF content = <<>> THEN <<>> ELSE SplitLines(content)

\* C31: converting JSONL to the pretty block form and back keeps every
\* malformed line character for character and in its position among the
\* records, and no record is dropped or merged with another.
C31_MalformedLinesKept ==
    hist.done =>
        /\ Len(LinesOut(hist.back)) = Len(RecordsIn(hist.content))
        /\ \A j \in 1..Len(RecordsIn(hist.content)) :
               ~JsonLoads(Strip(RecordsIn(hist.content)[j])).ok
                   => LinesOut(hist.back)[j] = RecordsIn(hist.content)[j]

----------------------------------------------------------------------------
(* Dot repeat (widget.py, _dot_start, _dot_stop, _dot_replay and on_key).   *)
(* A writable editor over DocText is driven with the keys that record an    *)
(* edit, the keys that end one, Visual mode and '.'; the history keeps the  *)
(* editor as it was before the last key.                                    *)

MaxDotKeys == 5

DotKeys ==
    Printable({"v", "r", "d", "c", "x", "i", ".", "b"}) \cup Special({"escape"})

InitDot ==
    /\ Start(NewEditor(DocText, FALSE))
    /\ hist = [n |-> 0, pre |-> NewEditor(DocText, FALSE), ev |-> Ev("", "")]

\* on_key: one key event
DotKey(ev) ==
    /\ ~crashed
    /\ hist.n < MaxDotKeys
    /\ Commit(OnKey(St, ev))
    /\ hist' = [n |-> hist.n + 1, pre |-> St, ev |-> ev]

NextDot == \E ev \in DotKeys : DotKey(ev)

SpecDot == InitDot /\ [][NextDot]_vars

\* the last key was a '.' that _handle_normal handed to _dot_replay
DotPressed ==
    /\ hist.ev = Ev(".", ".")
    /\ hist.pre.mode = "NORMAL"
    /\ hist.pre.pending = ""

\* C32: after '.' has replayed the recorded keys, the recorded sequence is
\* what it was before, recording is off and the replay flag is cleared, so
\* that the next '.' replays the same sequence
C32_ReplayNotRecorded ==
    DotPressed =>
        /\ ~crashed
        /\ dot_buffer = hist.pre.dot_buffer
        /\ ~dot_recording
        /\ ~dot_replaying

----------------------------------------------------------------------------
(* Hunk navigation of the diff view (differ.py).  A DiffEditor is the      *)
(* editor together with its hunk list and its current-hunk index: the      *)
(* record [e, diff_hunks, current_hunk].  A run mounts the view on a pair  *)
(* of documents and delivers at most MaxHunkInputs inputs to one pane; the *)
(* history holds the pane's hunk list and index, and the index before the  *)
(* last input.                                                             *)

MaxHunkInputs == 4

\* JsonDiffApp._unfold_diff_regions: the folds and the collapsed strings
\* that hold a row with a difference are opened
UnfoldDiffRegions(e, tags) ==
    [e EXCEPT
        !.folds = SelectSeq(e.folds, LAMBDA p :
                      ~\E i \in p[1]..p[2] : i < Len(tags) /\ tags[i + 1] # "EQUAL"),
        !.collapsed_strings = {i \in e.collapsed_strings :
                                   ~(i < Len(tags) /\ tags[i + 1] # "EQUAL")}]

\* _update_hunk_status; the message carries the number of the current hunk
UpdateHunkStatus(e, diff_hunks, current_hunk) ==
    [e EXCEPT !.status_msg =
        IF Len(diff_hunks) = 0 THEN Msg("Files are identical")
        ELSE IF current_hunk >= 0 THEN MsgN("Hunk i/total", current_hunk + 1)
        ELSE MsgN("hunks", Len(diff_hunks))]

\* JsonDiffApp.on_mount: the pane of the given side, once the diff is known
MountPane(result, side) ==
    LET left == FoldAllNested(SetDiffData(result.left_lines))
        open == UnfoldDiffRegions(left, result.left_line_tags)
        pane == IF side = "left" THEN open
                ELSE SyncFoldsToTarget(open, SetDiffData(result.right_lines))
    IN  [e |-> UpdateHunkStatus(pane, result.hunks, -1),
         diff_hunks |-> result.hunks,
         current_hunk |-> -1]

\* the tail of _goto_next_hunk and _goto_prev_hunk, once the index is at
JumpToHunk(d, at) ==
    [d EXCEPT !.current_hunk = at,
              !.e = UpdateHunkStatus(
                        ScrollCursorToCenter(
                            [d.e EXCEPT !.cursor_row = d.diff_hunks[at + 1].left_start,
                                        !.cursor_col = 0]),
                        d.diff_hunks, at)]

\* _goto_next_hunk without the wrap: the index stays on the last hunk
GotoNextHunkNoWrap(d) ==
    IF d.diff_hunks = <<>> THEN [d EXCEPT !.e.status_msg = Msg("No diffs")]
    ELSE JumpToHunk(d, IF d.current_hunk + 1 >= Len(d.diff_hunks) THEN d.current_hunk
                       ELSE d.current_hunk + 1)

\* _goto_next_hunk
GotoNextHunk(d) ==
    IF d.diff_hunks = <<>> THEN [d EXCEPT !.e.status_msg = Msg("No diffs")]
    ELSE JumpToHunk(d, IF d.current_hunk + 1 >= Len(d.diff_hunks) THEN 0
                       ELSE d.current_hunk + 1)

\* _goto_prev_hunk
GotoPrevHunk(d) ==
    IF d.diff_hunks = <<>> THEN [d EXCEPT !.e.status_msg = Msg("No diffs")]
    ELSE JumpToHunk(d, IF d.current_hunk - 1 < 0 THEN Len(d.diff_hunks) - 1
                       ELSE d.current_hunk - 1)

\* DiffEditor._handle_pending
DiffHandlePending(d, char, key) ==
    IF d.e.pending = "]" /\ char = "c" THEN GotoNextHunk([d EXCEPT !.e.pending = ""])
    ELSE IF d.e.pending = "[" /\ char = "c" THEN GotoPrevHunk([d EXCEPT !.e.pending = ""])
    ELSE [d EXCEPT !.e = HandlePending(d.e, char, key)]

\* DiffEditor._handle_normal
DiffHandleNormal(d, ev) ==
    IF d.e.pending \in {"]", "["} THEN DiffHandlePending(d, ev.char, ev.key)
    ELSE IF ev.char \in {"]", "["} THEN [d EXCEPT !.e.pending = ev.char]
    ELSE [d EXCEPT !.e = HandleNormal(d.e, ev)]

\* DiffOnKey, once r is known
DiffOnKey_r(r) ==
    [r EXCEPT !.e = OnKey_r(r.e)]

\* on_key of a DiffEditor: the Normal-mode handler is DiffEditor's
DiffOnKey(d, ev) ==
    IF d.e.mode = "NORMAL"
    THEN DiffOnKey_r(DiffHandleNormal(
             [d EXCEPT !.e = IF ~d.e.dot_replaying /\ d.e.dot_recording
                              THEN [d.e EXCEPT !.dot_buffer = Append(d.e.dot_buffer, ev)]
                              ELSE d.e], ev))
    ELSE [d EXCEPT !.e = OnKey(d.e, ev)]

\* the key events delivered to a DiffEditor one after the other
RECURSIVE DiffFeed(_, _)
DiffFeed(d, evs) ==
    IF evs = <<>> \/ d.e.crashed THEN d ELSE DiffFeed(DiffOnKey(d, Head(evs)), Tail(evs))

\* the pairs of files the view is mounted on: one, two and three hunks, an
\* added key, and no difference
HunkPairs ==
    {<<Dumps(Items(<<1, 2, 3, 4>>)), Dumps(Items(<<1, 2, 9, 4>>))>>,
     <<Dumps(Items(<<1, 2, 3, 4>>)), Dumps(Items(<<8, 2, 9, 4>>))>>,
     <<Dumps(Items(<<1, 2, 3, 4, 5>>)), Dumps(Items(<<8, 2, 9, 4, 7>>))>>,
     <<Dumps(ObjA), Dumps(ObjAB)>>,
     <<Dumps(ObjAB), Dumps(ObjAB)>>}

\* the inputs of a pane: the two hunk jumps typed as a whole, their keys one
\* by one, moves, and the fold keys
HunkInputs ==
    {<<Ev("]", "]"), Ev("c", "c")>>, <<Ev("[", "["), Ev("c", "c")>>}
    \cup {<<ev>> : ev \in Printable({"]", "[", "c", "j", "k", "G", "g", "z", "a", "M", "$"})
                          \cup Special({"escape"})}

\* the DiffEditor the variables and the history hold
Pane == [e |-> St, diff_hunks |-> hist.diff_hunks, current_hunk |-> hist.current_hunk]

InitHunk ==
    \E pair \in HunkPairs, side \in {"left", "right"} :
        LET d == MountPane(ComputeJsonDiff(pair[1], pair[2], TRUE, FALSE), side)
        IN  /\ Start(d.e)
            /\ hist = [n |-> 0, diff_hunks |-> d.diff_hunks, current_hunk |-> -1,
                       before |-> -1, jump |-> "none"]

\* the DiffEditor before the last of the keys evs
BeforeLast(evs) == DiffFeed(Pane, SubSeq(evs, 1, Len(evs) - 1))

\* the hunk jump that the last of the keys evs makes: "]", "[" or "none"
JumpOf(evs) ==
    IF /\ ~BeforeLast(evs).e.crashed
       /\ BeforeLast(evs).e.mode = "NORMAL"
       /\ BeforeLast(evs).e.pending \in {"]", "["}
       /\ evs[Len(evs)].char = "c"
    THEN BeforeLast(evs).e.pending
    ELSE "none"

\* the pane handles the keys evs
HunkKeys(evs) ==
    /\ ~crashed
    /\ hist.n < MaxHunkInputs
    /\ Commit(DiffFeed(Pane, evs).e)
    /\ hist' = [n |-> hist.n + 1, diff_hunks |-> hist.diff_hunks,
                current_hunk |-> DiffFeed(Pane, evs).current_hunk,
                before |-> BeforeLast(evs).current_hunk,
                jump |-> JumpOf(evs)]

NextHunk == \E evs \in HunkInputs : HunkKeys(evs)

SpecHunk == InitHunk /\ [][NextHunk]_vars

C34_EjSaveNeverWritesFile ==
    [][hist.focused = "ej-editor" => hist'.file = hist.file]_vars

----------------------------------------------------------------------------
(* Visual mode under the keys that change the number of lines.  A writable *)
(* editor over DocText is driven with moves, the Visual keys, the join    *)
(* and undo keys and the three operators.                                  *)

MaxVisualKeys == 5

VisualKeys == Printable({"G", "j", "k", "v", "V", "J", "d", "y", "c", "u"})

InitVisual ==
    /\ Start(NewEditor(DocText, FALSE))
    /\ hist = [n |-> 0, ev |-> Ev("", "")]

\* on_key: one key event
VisualKey(ev) ==
    /\ ~crashed
    /\ hist.n < MaxVisualKeys
    /\ Commit(OnKey(St, ev))
    /\ hist' = [n |-> hist.n + 1, ev |-> ev]

NextVisual == \E ev \in VisualKeys \cup Special({"escape"}) : VisualKey(ev)

SpecVisual == InitVisual /\ [][NextVisual]_vars

\* C35: whenever a Visual selection is active its anchor row is a valid line
\* index, 0 <= anchor_row < len(lines), so that d, y and c on the selection
\* operate on existing lines.
C35_AnchorRowValid ==
    visual_mode # "" => visual_anchor_row \in 0..(Len(lines) - 1)

----------------------------------------------------------------------------
(* The cursor and nested folds.  A run starts from the pretty-printed      *)
(* document, whose block a lies inside the root block, and delivers at     *)
(* most MaxNestedCommands whole commands: fold commands, cursor moves and  *)
(* the ':' command that goes to a line.                                    *)

MaxNestedCommands == 5

GotoLineCommands == {Typed(":", <<c>>) : c \in {"2", "3", "5"}}

\* one more whole command is delivered to an editor waiting in Normal mode
NestedCommand(evs) ==
    /\ Idle
    /\ hist.n < MaxNestedCommands
    /\ Commit(Feed(St, evs))
    /\ hist' = [n |-> hist.n + 1]

NextNested ==
    \E evs \in FoldCommands \cup MoveCommands \cup GotoLineCommands : NestedCommand(evs)

SpecNested == InitFold /\ [][NextNested]_vars

\* C36: after every key event the cursor is on a visible line: for every
\* fold (s, e) of the fold table the cursor row is not strictly inside it,
\* not s < cursor_row <= e, including when folds are nested.
C36_CursorOnVisibleLine ==
    \A i \in 1..Len(folds) : ~(folds[i][1] < cursor_row /\ cursor_row <= folds[i][2])

\* the last key was the second key c of a fold command z c on the read-only editor
FoldKeyPressed(c) ==
    /\ hist.n > 0
    /\ hist.evs = <<Ev(c, c)>>
    /\ hist.pre.mode = "NORMAL"
    /\ hist.pre.pending = "z"

\* C37: fold commands change only fold state and are honoured on a
\* read-only buffer: 'za' on an unfolded foldable header creates the fold
\* and 'zR' clears all folds, and the text is as before.
C37_FoldKeysOnReadOnly ==
    /\ FoldKeyPressed("a") /\ FindFoldableAt(hist.pre.lines, hist.pre.cursor_row) # None2
                           /\ ~FoldHas(hist.pre.folds, hist.pre.cursor_row)
           => FoldHas(folds, hist.pre.cursor_row) /\ lines = hist.pre.lines
    /\ FoldKeyPressed("R") => folds = <<>> /\ lines = hist.pre.lines

----------------------------------------------------------------------------
(* Opening a line under folds.  A run starts from the pretty-printed       *)
(* document and delivers at most MaxOpenInputs inputs: whole fold commands *)
(* and cursor moves, the key 'o', and Escape to leave Insert mode; hist    *)
(* keeps the editor as it was before the last input, and that input.       *)

MaxOpenInputs == 4

OpenInputs == FoldCommands \cup MoveCommands \cup {Chars(<<"o">>), Escape}

InitOpen ==
    /\ Start(NewEditor(DocNested, FALSE))
    /\ hist = [n |-> 0, pre |-> NewEditor(DocNested, FALSE), evs |-> <<>>]

\* one more input is delivered: a command in Normal mode, or Escape
OpenInput(evs) ==
    /\ ~crashed /\ pending = ""
    /\ mode = "NORMAL" \/ (mode = "INSERT" /\ evs = Escape)
    /\ hist.n < MaxOpenInputs
    /\ Commit(Feed(St, evs))
    /\ hist' = [n |-> hist.n + 1, pre |-> St, evs |-> evs]

NextOpen == \E evs \in OpenInputs : OpenInput(evs)

SpecOpen == InitOpen /\ [][NextOpen]_vars

\* C38: after 'o' in Normal mode on a writable buffer the editor is in
\* Insert mode with the cursor on the newly inserted line, one row below the
\* line the cursor was on, for every fold state.
C38_OpenLineBelow ==
    hist.evs = Chars(<<"o">>) /\ hist.pre.mode = "NORMAL" =>
        /\ mode = "INSERT"
        /\ Len(lines) = Len(hist.pre.lines) + 1
        /\ cursor_row = hist.pre.cursor_row + 1
        /\ Strip(At(lines, cursor_row)) = <<>>

----------------------------------------------------------------------------
(* The match list of a search.  A run starts from a JSON document, moves   *)
(* the cursor and types at most MaxPathSearches searches as a whole:       *)
(* JSONPath searches (child, wildcard, recursive descent, array items) and *)
(* regular expressions, forward and backward.                              *)

MaxPathSearches == 2

\* {"x": {"a": 1}, "a": 2}: the key a at two depths
ObjNestedA ==
    JObj(<< <<<<"x">>, JObj(<< <<<<"a">>, JNum(1)>> >>)>>, <<<<"a">>, JNum(2)>> >>)

\* {"a": [1, 1]}: an array holding one value twice
ObjOnes == JObj(<< <<<<"a">>, JArr(<<JNum(1), JNum(1)>>)>> >>)

PathDocs == {DocNested, SplitLines(Dumps(ObjNestedA)), SplitLines(Dumps(ObjOnes))}

PathPatterns ==
    {<<"$", ".", "b">>, <<"$", ".", "*">>, <<"$", ".", ".", "a">>,
     <<"$", ".", "a", "[", "*", "]">>, <<"$", ".", "a", "[", "0", "]">>,
     <<"a">>, <<"1">>, <<"z">>}

InitPath ==
    /\ \E doc \in PathDocs : Start(NewEditor(doc, FALSE))
    /\ hist = [n |-> 0, moves |-> 0, pattern |-> <<>>]

\* a movement key
PathMove(ev) ==
    /\ Idle
    /\ hist.moves < MaxMoves
    /\ Commit(Feed(St, <<ev>>))
    /\ hist' = [hist EXCEPT !.moves = hist.moves + 1]

\* the search opener pattern Enter is typed
PathSearch(opener, pattern) ==
    /\ Idle
    /\ hist.n < MaxPathSearches
    /\ SearchModelled(pattern)
    /\ Commit(Feed(St, Typed(opener, pattern)))
    /\ hist' = [hist EXCEPT !.n = hist.n + 1, !.pattern = pattern]

NextPath ==
    \/ \E ev \in SearchMoves : PathMove(ev)
    \/ \E opener \in {"/", "?"}, pattern \in PathPatterns : PathSearch(opener, pattern)

SpecPath == InitPath /\ [][NextPath]_vars

\* C39: after any search the match list is strictly increasing in
\* (row, colStart): the matches are in document order and no span occurs
\* twice.
C39_MatchesStrictlyIncreasing ==
    \A j \in 1..(Len(search_matches) - 1) :
        \/ search_matches[j][1] < search_matches[j + 1][1]
        \/ /\ search_matches[j][1] = search_matches[j + 1][1]
           /\ search_matches[j][2] < search_matches[j + 1][2]

\* canon is what is left of the column when some of its padding rows, the
\* empty rows that are not tagged EQUAL, are removed
RECURSIVE KeepsLines(_, _, _)
KeepsLines(column, tags, canon) ==
    IF column = <<>> THEN canon = <<>>
    ELSE \/ /\ canon # <<>>
            /\ Head(column) = Head(canon)
            /\ KeepsLines(Tail(column), Tail(tags), Tail(canon))
         \/ /\ Head(column) = <<>>
            /\ Head(tags) # "EQUAL"
            /\ KeepsLines(Tail(column), Tail(tags), canon)

\* C40: for every pair of JSON documents the left column without its padding
\* rows is the canonicalised left document, line by line and in order, and
\* likewise the right column: no source line is dropped, duplicated or
\* reordered, on the block path as well as on the line-level path.
C40_SourceLinesKept ==
    Computed /\ ~hist.jsonl =>
        /\ KeepsLines(diff_result.left_lines, diff_result.left_line_tags, LeftDoc)
        /\ KeepsLines(diff_result.right_lines, diff_result.right_line_tags, RightDoc)

\* the block path has aligned a list of four blocks with one of five: the
\* last left block pairs with a right block that differs from it, the fifth
\* right block stands beside filler rows, and every line of both lists is kept
C40_Witness ==
    /\ Computed /\ ~hist.jsonl
    /\ hist.left = Dumps(Items(<<1, 2, 3, 4>>))
    /\ hist.right = Dumps(Items(<<1, 2, 3, 4, 9>>))
    /\ Len(diff_result.left_lines) > Len(LeftDoc)
    /\ \E k \in 1..Len(diff_result.left_lines) :
           diff_result.left_lines[k] = <<>> /\ diff_result.left_line_tags[k] = "INSERT"
    /\ C40_SourceLinesKept

====
